---- MODULE Spec2Model ----
(***************************************************************************)
(* A model of waymon's statistics engine: the double-buffered StatsDelta   *)
(* store (stats.rs), the AllStats registry that owns one store per counter *)
(* source, and the per-tick refresh driven by Waymon::process_tick.        *)
(***************************************************************************)
EXTENDS Integers, Sequences, FiniteSets, TLC

\* ---------------------------------------------------------------- bounds
\* Snapshots are abstracted to the numbers 0..MaxSnap (0 is the all-zero one).
MaxSnap == 1
\* Instant::now() ranges over 0..MaxTime.
MaxTime == 1
\* Instant::now() ranges over 0..MaxStamp where one store is taken on its own.
MaxStamp == 3

\* ------------------------------------------------------- stats.rs: types
\* The seven Option<Rc<RefCell<StatsDelta<T>>>> fields of AllStats.
Stores ==
    {"proc_stats", "disk_stats", "net_stats", "mem_stats",
     "cpu_pressure", "io_pressure", "mem_pressure"}

\* The value of an Option field that is None.
None == 0

Snapshots == 0..MaxSnap

Instants == 0..MaxTime

\* StatType::new_zero(): the snapshot with every counter 0.
new_zero == 0

\* A read or parse that returned Err(StatsError).
Err == [ok |-> FALSE, val |-> new_zero]

\* What one read+parse of a kernel file can produce: Ok(snapshot) or Err.
ReadResults == [ok : {TRUE}, val : Snapshots] \cup {Err}

\* A failing update that clears the buffer before the read completes.
StatType_update_clobber(self, r) ==
    [self |-> IF r.ok THEN r.val ELSE new_zero, ok |-> r.ok]

\* StatType::update(&mut self): `*self = Self::read()?; Ok(())`.
\* The assignment happens only when the read (and parse) returned Ok.
StatType_update(self, r) ==
    [self |-> IF r.ok THEN r.val ELSE self, ok |-> r.ok]

\* StatsDelta::new with the generations seeded from different values.
StatsDelta_new_unseeded(now, r) ==
    LET s == StatType_update(new_zero, r).self
    IN  [a |-> s, b |-> new_zero, a_newer |-> TRUE,
         timestamp |-> now, duration |-> 0]

\* StatsDelta::new(): one best-effort read into a zero snapshot, cloned
\* into both generations; a_newer = true, duration = 0.
StatsDelta_new(now, r) ==
    LET s == StatType_update(new_zero, r).self
    IN  [a |-> s, b |-> s, a_newer |-> TRUE,
         timestamp |-> now, duration |-> 0]

\* The fields of a StatsDelta that hold a generation.
Generations == {"a", "b"}

\* get_new_and_old that hands out the same generation twice once b is newer.
get_new_and_old_refs_same(sd) ==
    IF sd.a_newer THEN <<"a", "b">> ELSE <<"b", "b">>

\* StatsDelta::get_new_and_old(): which fields the two references it returns
\* point to, <<newer, older>>.
get_new_and_old_refs(sd) ==
    IF sd.a_newer THEN <<"a", "b">> ELSE <<"b", "a">>

\* StatsDelta::get_new_and_old(): the snapshots behind the two references.
get_new_and_old(sd) ==
    LET p == get_new_and_old_refs(sd)
    IN  <<sd[p[1]], sd[p[2]]>>

\* StatsDelta::get_new().
get_new(sd) == IF sd.a_newer THEN sd.a ELSE sd.b

\* StatsDelta::time_delta().
time_delta(sd) == sd.duration

\* StatsDelta::update that writes the fresh snapshot into the newer buffer.
StatsDelta_update_newer(sd, now, r) ==
    LET u == StatType_update(IF sd.a_newer THEN sd.a ELSE sd.b, r)
        w == IF sd.a_newer THEN [sd EXCEPT !.a = u.self]
                           ELSE [sd EXCEPT !.b = u.self]
    IN  IF ~u.ok
        THEN [sd |-> w, ok |-> FALSE]
        ELSE [sd |-> [w EXCEPT !.a_newer = ~sd.a_newer,
                               !.duration = now - sd.timestamp,
                               !.timestamp = now],
              ok |-> TRUE]

\* StatsDelta::update that stamps the time before the read is known to be Ok.
StatsDelta_update_stamp_first(sd, now, r) ==
    LET u == StatType_update(IF sd.a_newer THEN sd.b ELSE sd.a, r)
        w == IF sd.a_newer THEN [sd EXCEPT !.b = u.self]
                           ELSE [sd EXCEPT !.a = u.self]
        t == [w EXCEPT !.duration = now - sd.timestamp, !.timestamp = now]
    IN  IF ~u.ok
        THEN [sd |-> t, ok |-> FALSE]
        ELSE [sd |-> [t EXCEPT !.a_newer = ~sd.a_newer], ok |-> TRUE]

\* StatsDelta::update(&mut self, now): update the older generation in place;
\* `?` returns early on Err; then flip a_newer, duration = now - timestamp,
\* timestamp = now.
StatsDelta_update(sd, now, r) ==
    LET u == StatType_update(IF sd.a_newer THEN sd.b ELSE sd.a, r)
        w == IF sd.a_newer THEN [sd EXCEPT !.b = u.self]
                           ELSE [sd EXCEPT !.a = u.self]
    IN  IF ~u.ok
        THEN [sd |-> w, ok |-> FALSE]
        ELSE [sd |-> [w EXCEPT !.a_newer = ~sd.a_newer,
                               !.duration = now - sd.timestamp,
                               !.timestamp = now],
              ok |-> TRUE]

\* ------------------------------------------------------ stats.rs: AllStats
\* The consumers of the registry: chart widgets, each of which calls one
\* get_* accessor when it is built and keeps the handle it is given.
Widgets == {"w1", "w2"}

VARIABLES
    clock,      \* the latest value Instant::now() has returned
    registry,   \* AllStats: field -> None or the Rc it holds (index in cells)
    cells,      \* the RefCell<StatsDelta<T>> allocations, in allocation order
    handle,     \* widget -> the [store, cell] its get_* call returned, or NoHandle
    seen,       \* widget -> what its latest update() read from its store
    trace,      \* what the latest call did, in order: reads and log lines
    borrowed,   \* the cells on which a consumer holds a Ref at the moment
    delta,      \* one StatsDelta<T> taken on its own, NoDelta before new()
    last,       \* the latest call on delta: which, with what now, read and result
    okTimes,    \* the `now` of new() and of the successful updates of delta
    arg,        \* the arguments of the function under study, NoArg if none
    ret         \* what the function returned for arg, NoRet before the call

regVars == <<registry, cells, handle, seen, trace, borrowed>>

deltaVars == <<delta, last, okTimes>>

callVars == <<arg, ret>>

vars == <<clock, regVars, deltaVars, callVars>>

\* One step of a call: a read of the kernel file of store s by StatsDelta::new
\* (ev = "new") or StatsDelta::update (ev = "update") that returned r.
Read(ev, s, r) == [ev |-> ev, store |-> s, ok |-> r.ok, val |-> r.val]

\* The eprintln! that follows a failed read of store s.
Log(s) == [ev |-> "log", store |-> s, ok |-> FALSE, val |-> new_zero]

\* The eprintln! of update_stat when try_borrow_mut() on store s fails.
Busy(s) == [ev |-> "busy", store |-> s, ok |-> FALSE, val |-> new_zero]

\* What a widget holds before it is built.
NoHandle == [store |-> "", cell |-> None]

\* The stores that exist: the Option fields that are Some.
Created == {s \in Stores : registry[s] # None}

\* AllStats::get_stat that builds a new store on every call.
get_stat_always_new(reg, cls, s, now, r) ==
    [registry |-> [reg EXCEPT ![s] = Len(cls) + 1],
     cells |-> Append(cls, StatsDelta_new(now, r)),
     handle |-> Len(cls) + 1,
     trace |-> <<Read("new", s, r)>> \o (IF r.ok THEN <<>> ELSE <<Log(s)>>)]

\* AllStats::get_stat that gives up when the initial read fails.
get_stat_propagate(reg, cls, s, now, r) ==
    IF reg[s] # None
    THEN [registry |-> reg, cells |-> cls, handle |-> reg[s], trace |-> <<>>]
    ELSE IF r.ok
    THEN [registry |-> [reg EXCEPT ![s] = Len(cls) + 1],
          cells |-> Append(cls, StatsDelta_new(now, r)),
          handle |-> Len(cls) + 1,
          trace |-> <<Read("new", s, r)>>]
    ELSE [registry |-> reg, cells |-> cls, handle |-> None,
          trace |-> <<Read("new", s, r), Log(s)>>]

\* AllStats::get_stat: stat.get_or_insert_with(|| Rc::new(RefCell::new(
\* StatsDelta::new()))).clone().  StatsDelta::new logs a failed initial read
\* and falls through.
get_stat(reg, cls, s, now, r) ==
    IF reg[s] # None
    THEN [registry |-> reg, cells |-> cls, handle |-> reg[s], trace |-> <<>>]
    ELSE [registry |-> [reg EXCEPT ![s] = Len(cls) + 1],
          cells |-> Append(cls, StatsDelta_new(now, r)),
          handle |-> Len(cls) + 1,
          trace |-> <<Read("new", s, r)>> \o (IF r.ok THEN <<>> ELSE <<Log(s)>>)]

\* AllStats::update_stat that reads the file of a field that is still None.
update_stat_eager(st, reg, s, now, rr) ==
    IF reg[s] = None
    THEN [st EXCEPT !.trace = st.trace \o <<Read("update", s, Err), Log(s)>>]
    ELSE LET u == StatsDelta_update(st.cells[reg[s]], now, rr[s])
         IN  [st EXCEPT !.cells = [st.cells EXCEPT ![reg[s]] = u.sd],
                        !.trace = st.trace \o <<Read("update", s, rr[s])>>
                                  \o (IF u.ok THEN <<>> ELSE <<Log(s)>>)]

\* AllStats::update_stat that updates the store whether it is borrowed or not.
update_stat_unchecked(st, reg, s, now, rr) ==
    IF reg[s] = None
    THEN st
    ELSE LET u == StatsDelta_update(st.cells[reg[s]], now, rr[s])
         IN  [st EXCEPT !.cells = [st.cells EXCEPT ![reg[s]] = u.sd],
                        !.trace = st.trace \o <<Read("update", s, rr[s])>>
                                  \o (IF u.ok THEN <<>> ELSE <<Log(s)>>)]

\* AllStats::update_stat: nothing for a None field; otherwise try_borrow_mut
\* the cell: if that fails, log it; else call StatsDelta::update(now) and log
\* (not return) its error.  st = [cells, trace, borrowed] is threaded through
\* the calls of one AllStats::update.
update_stat(st, reg, s, now, rr) ==
    IF reg[s] = None
    THEN st
    ELSE IF reg[s] \in st.borrowed
    THEN [st EXCEPT !.trace = st.trace \o <<Busy(s)>>]
    ELSE LET u == StatsDelta_update(st.cells[reg[s]], now, rr[s])
         IN  [st EXCEPT !.cells = [st.cells EXCEPT ![reg[s]] = u.sd],
                        !.trace = st.trace \o <<Read("update", s, rr[s])>>
                                  \o (IF u.ok THEN <<>> ELSE <<Log(s)>>)]

\* update_stat that is skipped once an earlier store of the tick has failed.
update_stat_unless_failed(st, reg, s, now, rr) ==
    IF \E i \in 1..Len(st.trace) : ~st.trace[i].ok
    THEN st
    ELSE update_stat(st, reg, s, now, rr)

\* AllStats::update that returns at the first failing store.
AllStats_update_abort(st, reg, now, rr) ==
    update_stat_unless_failed(
        update_stat_unless_failed(
            update_stat_unless_failed(
                update_stat_unless_failed(st, reg, "proc_stats", now, rr),
                reg, "disk_stats", now, rr),
            reg, "net_stats", now, rr),
        reg, "mem_stats", now, rr)

\* AllStats::update that visits disk_stats before proc_stats.
AllStats_update_reordered(st, reg, now, rr) ==
    update_stat(
        update_stat(
            update_stat(
                update_stat(st, reg, "disk_stats", now, rr),
                reg, "proc_stats", now, rr),
            reg, "net_stats", now, rr),
        reg, "mem_stats", now, rr)

\* AllStats::update(now): update_stat on proc_stats, disk_stats, net_stats
\* and mem_stats, in that order.
AllStats_update(st, reg, now, rr) ==
    update_stat(
        update_stat(
            update_stat(
                update_stat(st, reg, "proc_stats", now, rr),
                reg, "disk_stats", now, rr),
            reg, "net_stats", now, rr),
        reg, "mem_stats", now, rr)

\* The fields AllStats::update passes to update_stat, in the order of its calls.
UpdateOrder == <<"proc_stats", "disk_stats", "net_stats", "mem_stats">>

UpdateStores == {UpdateOrder[k] : k \in 1..Len(UpdateOrder)}

\* ------------------------------------------------- widgets, bar.rs, waymon.rs
\* What a widget has read before its first update().
NotSeen == <<>>

\* Widget::update: borrow the store, read get_new_and_old() and time_delta();
\* the rates the widget then shows are a function of these three.
Widget_update(cls, h) ==
    LET sd == cls[h.cell]
        p == get_new_and_old(sd)
    IN  <<p[1], p[2], time_delta(sd)>>

\* Bar::update for the bars of all monitors: update() of every widget built.
Bar_update(cls, hs, sn) ==
    [w \in Widgets |-> IF hs[w] = NoHandle THEN sn[w] ELSE Widget_update(cls, hs[w])]

\* Waymon::process_tick that updates the bars before it refreshes the stats.
process_tick_bars_first(cls, bw, reg, hs, sn, now, rr) ==
    LET u == AllStats_update([cells |-> cls, trace |-> <<>>, borrowed |-> bw],
                             reg, now, rr)
    IN  [cells |-> u.cells, trace |-> u.trace, seen |-> Bar_update(cls, hs, sn)]

\* Waymon::process_tick: all_stats.update(now), then bar.update() for every
\* monitor that shows a bar.  bw: the cells borrowed while it runs.
process_tick(cls, bw, reg, hs, sn, now, rr) ==
    LET u == AllStats_update([cells |-> cls, trace |-> <<>>, borrowed |-> bw],
                             reg, now, rr)
    IN  [cells |-> u.cells, trace |-> u.trace,
         seen |-> Bar_update(u.cells, hs, sn)]

\* What delta is before StatsDelta::new() has run.
NoDelta == [a |-> new_zero, b |-> new_zero, a_newer |-> TRUE,
            timestamp |-> 0 - 1, duration |-> 0]

\* No function is under study.
NoArg == [fn |-> "none"]

\* The function under study has not been called yet.
NoRet == [fn |-> "none"]

\* AllStats::new(): every field None; no widget built yet; delta not yet built.
InitStats ==
    /\ clock = 0
    /\ registry = [s \in Stores |-> None]
    /\ cells = <<>>
    /\ handle = [w \in Widgets |-> NoHandle]
    /\ seen = [w \in Widgets |-> NotSeen]
    /\ trace = <<>>
    /\ borrowed = {}
    /\ delta = NoDelta
    /\ last = [op |-> "none", now |-> 0, r |-> Err, ok |-> FALSE]
    /\ okTimes = <<>>

Init == InitStats /\ arg = NoArg /\ ret = NoRet

\* Widget w is built and calls the get_* accessor of store s; the initial
\* read is consulted only when the store has to be built, at the instant of
\* the latest tick.  The widgets are named in the order in which they are built.
Get(w, s) ==
    /\ handle[w] = NoHandle
    /\ w = "w2" => handle["w1"] # NoHandle
    /\ \E r \in ReadResults :
          LET g == get_stat(registry, cells, s, clock, r)
          IN  /\ registry' = g.registry
              /\ cells' = g.cells
              /\ handle' = [handle EXCEPT ![w] = [store |-> s, cell |-> g.handle]]
              /\ trace' = g.trace
              /\ UNCHANGED <<clock, seen, borrowed, deltaVars, callVars>>

\* Waymon::process_tick at now, rr[s] being what the read of the file behind
\* store s returns during this tick.
TickWith(now, rr) ==
    LET u == process_tick(cells, borrowed, registry, handle, seen, now, rr)
    IN  /\ cells' = u.cells
        /\ trace' = u.trace
        /\ seen' = u.seen
        /\ clock' = now
        /\ UNCHANGED <<registry, handle, borrowed, deltaVars, callVars>>

\* The instant of the next timer tick: one interval after the latest one,
\* until the clock reaches MaxTime.
NextInstant == IF clock < MaxTime THEN clock + 1 ELSE clock

\* One timer tick: now = Instant::now(), and one result for each file that
\* the tick reads.
Tick ==
    \E rr \in [Created \cap UpdateStores -> ReadResults] :
        TickWith(NextInstant, rr)

Next ==
    \/ \E w \in Widgets, s \in Stores : Get(w, s)
    \/ Tick

\* The application: widgets are built, the timer ticks.
Spec == Init /\ [][Next]_vars

\* ------------------------------------------ one StatsDelta<T> on its own
Last2(q) == IF Len(q) > 2 THEN SubSeq(q, Len(q) - 1, Len(q)) ELSE q

\* StatsDelta::<T>::new() with now = Instant::now() and initial read r.
DeltaNew ==
    /\ delta = NoDelta
    /\ \E now \in clock..MaxStamp, r \in ReadResults :
          /\ delta' = StatsDelta_new(now, r)
          /\ last' = [op |-> "new", now |-> now, r |-> r, ok |-> TRUE]
          /\ okTimes' = <<now>>
          /\ clock' = now
    /\ UNCHANGED <<regVars, callVars>>

\* delta.update(now) with read r; last.ok is whether it returned Ok.
DeltaUpdate ==
    /\ delta # NoDelta
    /\ \E now \in clock..MaxStamp, r \in ReadResults :
          LET u == StatsDelta_update(delta, now, r)
          IN  /\ delta' = u.sd
              /\ last' = [op |-> "update", now |-> now, r |-> r, ok |-> u.ok]
              /\ okTimes' = IF r.ok THEN Last2(Append(okTimes, now)) ELSE okTimes
              /\ clock' = now
    /\ UNCHANGED <<regVars, callVars>>

NextDelta == DeltaNew \/ DeltaUpdate

\* A StatsDelta is built and then updated any number of times.
SpecDelta == Init /\ [][NextDelta]_vars

\* ------------------------------------- a consumer that keeps its borrow
\* The widgets that may keep a Ref across a tick.
Holders == {"w1"}

\* Widget w keeps the Ref it obtained with stats.borrow() on its store.
Hold(w) ==
    /\ handle[w] # NoHandle
    /\ handle[w].cell \notin borrowed
    /\ borrowed' = borrowed \cup {handle[w].cell}
    /\ UNCHANGED <<clock, registry, cells, handle, seen, trace, deltaVars, callVars>>

\* A timer tick that runs while a Ref is being kept.
TickHeld == borrowed # {} /\ Tick

NextBorrow ==
    \/ \E w \in Widgets, s \in UpdateStores : Get(w, s)
    \/ \E w \in Holders : Hold(w)
    \/ TickHeld

\* Widgets of the stores that AllStats::update visits are built, one of them
\* keeps its store borrowed, and the timer ticks from then on.
SpecBorrow == Init /\ [][NextBorrow]_vars

\* ------------------------------------------------------------ properties
\* C1: a successful StatsDelta::update writes the fresh snapshot into the
\* generation that was older and only into it, and flips a_newer; right after
\* it get_new_and_old() is (the snapshot just read, the previous newer one).
C1_FreshIntoOlder ==
    [][(delta # NoDelta /\ last'.r.ok) =>
          /\ get_new_and_old(delta') = <<last'.r.val, get_new(delta)>>
          /\ delta'.a_newer = ~delta.a_newer
          /\ IF delta.a_newer THEN delta'.a = delta.a ELSE delta'.b = delta.b
          /\ last'.ok]_vars

\* A successful update has just made b the newer generation, with a snapshot
\* that differs from the one it displaced.
C1_Witness ==
    /\ last.op = "update"
    /\ last.r.ok
    /\ ~delta.a_newer
    /\ delta.b = last.r.val
    /\ delta.a # delta.b

\* C2: a StatsDelta::update whose read or parse fails returns the error and
\* leaves both generations, a_newer, timestamp and duration as they were.
C2_FailedUpdateKeepsAll ==
    [][(delta # NoDelta /\ ~last'.r.ok) => (delta' = delta /\ ~last'.ok)]_vars

\* An update has just failed on a store that an earlier update had refreshed
\* and whose older generation is a non-zero snapshot.
C2_Witness ==
    /\ last.op = "update"
    /\ ~last.r.ok
    /\ ~last.ok
    /\ Len(okTimes) = 2
    /\ get_new_and_old(delta)[2] # new_zero
    /\ delta.a # delta.b

\* C8: time_delta() is the difference between the `now` of the two latest
\* successful refreshes, construction counting as the first one (so it is 0
\* until the first successful update); the stored timestamp is the `now` of
\* the latest one; failed refreshes change neither.
C8_TimeDelta ==
    delta # NoDelta =>
        /\ Len(okTimes) >= 1
        /\ delta.timestamp = okTimes[Len(okTimes)]
        /\ time_delta(delta) = IF Len(okTimes) = 1 THEN 0
                               ELSE okTimes[2] - okTimes[1]

\* A failed update at a later instant has followed two successful refreshes
\* that were some time apart.
C8_Witness ==
    /\ last.op = "update"
    /\ ~last.r.ok
    /\ Len(okTimes) = 2
    /\ last.now > okTimes[2]
    /\ time_delta(delta) > 0

\* C9: right after StatsDelta::new() both generations are equal (the single
\* initial read, or zero if it failed), time_delta() is 0, so that every
\* difference between the generations is 0.
C9_FreshStoreFlat ==
    last.op = "new" =>
        /\ delta.a = delta.b
        /\ delta.a = (IF last.r.ok THEN last.r.val ELSE new_zero)
        /\ get_new_and_old(delta)[1] - get_new_and_old(delta)[2] = 0
        /\ time_delta(delta) = 0
        /\ delta.a_newer
        /\ delta.timestamp = last.now

\* A store has just been built from a successful non-zero initial read.
C9_Witness ==
    /\ last.op = "new"
    /\ last.r.ok
    /\ delta.a # new_zero
    /\ delta # NoDelta

\* The positions of the trace at which store s was read by an update.
UpdatesOf(tr, s) ==
    {i \in 1..Len(tr) : tr[i].ev = "update" /\ tr[i].store = s}

\* The widgets that have been built.
Built == {w \in Widgets : handle[w] # NoHandle}

\* A step that builds no widget is a timer tick.
TickStep == handle' = handle

\* C3: AllStats::update refreshes every store created through a get_*
\* accessor, the pressure stores included: after a tick in which every read
\* succeeds, the newer generation of every created store is the snapshot read
\* during that tick.
C3_EveryCreatedStoreRefreshed ==
    [][\A now \in Instants, rr \in [Created -> ReadResults] :
          (TickWith(now, rr) /\ \A s \in Created : rr[s].ok) =>
              \A s \in Created : get_new(cells'[registry[s]]) = rr[s].val]_vars

\* C4: in a tick, every created store that AllStats::update visits is read
\* exactly once whatever happened to the others; one whose own read succeeds
\* is refreshed with it, one whose read fails is logged and left as it was;
\* the tick goes on to update every widget.
C4_FailureIsolated ==
    [][TickStep =>
          /\ \A s \in Created \cap UpdateStores :
                /\ Cardinality(UpdatesOf(trace', s)) = 1
                /\ \A i \in UpdatesOf(trace', s) :
                      IF trace'[i].ok
                      THEN /\ get_new_and_old(cells'[registry[s]])
                                = <<trace'[i].val, get_new(cells[registry[s]])>>
                           /\ cells'[registry[s]].timestamp = clock'
                      ELSE /\ cells'[registry[s]] = cells[registry[s]]
                           /\ i < Len(trace')
                           /\ trace'[i + 1] = Log(s)
          /\ \A w \in Built : seen'[w] # NotSeen]_vars

\* In the latest tick one store failed and a store visited after it was
\* refreshed all the same.
C4_Witness ==
    \E i, j \in 1..Len(trace) :
        /\ i < j
        /\ trace[i].ev = "update" /\ ~trace[i].ok
        /\ trace[j].ev = "update" /\ trace[j].ok
        /\ cells[registry[trace[j].store]].timestamp = clock
        /\ cells[registry[trace[j].store]].a # cells[registry[trace[j].store]].b

\* C5: every handle a get_* accessor has returned is the instance the
\* registry holds for that type; there is one instance per created type; an
\* entry, once Some, is never replaced or removed; a get_* on an existing
\* entry neither constructs nor reads.
C5_OneSharedInstance ==
    /\ [](/\ \A w \in Built : registry[handle[w].store] = handle[w].cell
          /\ Len(cells) = Cardinality(Created)
          /\ \A s \in Created : registry[s] \in 1..Len(cells))
    /\ [][/\ \A s \in Created : registry'[s] = registry[s]
          /\ \A w \in Widgets :
                (handle'[w] # handle[w] /\ handle'[w].store \in Created) =>
                    (cells' = cells /\ trace' = <<>>)]_vars

\* The second widget was given, after a refresh, the store that the first
\* widget had caused to be built: same instance, holding the refreshed data.
C5_Witness ==
    /\ Built = Widgets
    /\ handle["w1"] = handle["w2"]
    /\ seen["w1"] # NotSeen
    /\ seen["w2"] = NotSeen
    /\ ~cells[handle["w2"].cell].a_newer
    /\ Len(cells) = 1

\* C6: in a tick every widget reads its store after AllStats::update has
\* finished with all stores: what it sees is the (newer, older) pair and the
\* duration the store has at the end of the tick (the snapshot just read, if
\* its refresh succeeded), hence the same for all widgets of one store.
C6_WidgetsSeeRefreshedState ==
    [][TickStep =>
          /\ \A w \in Built :
                LET c == cells'[handle[w].cell]
                IN  /\ seen'[w] = <<get_new_and_old(c)[1],
                                    get_new_and_old(c)[2], time_delta(c)>>
                    /\ \A i \in UpdatesOf(trace', handle[w].store) :
                          trace'[i].ok => seen'[w][1] = trace'[i].val
          /\ \A v, w \in Built :
                handle[v].store = handle[w].store => seen'[v] = seen'[w]]_vars

\* Two widgets of one store have both been shown the generations of the
\* latest, successful, refresh.
C6_Witness ==
    /\ Built = Widgets
    /\ handle["w1"] = handle["w2"]
    /\ Len(trace) = 1
    /\ trace[1].ev = "update"
    /\ trace[1].ok
    /\ seen["w1"] = seen["w2"]
    /\ seen["w1"] # NotSeen
    /\ seen["w1"][1] # seen["w1"][2]
    /\ seen["w1"][3] > 0

\* C7 as stated: within a tick the stores are refreshed in the order in which
\* they were created (a store created earlier is refreshed earlier).
C7_RegistrationOrder ==
    \A i, j \in 1..Len(trace) :
        (i < j /\ trace[i].ev = "update" /\ trace[j].ev = "update") =>
            registry[trace[i].store] < registry[trace[j].store]

\* The rank of a field in the calls of AllStats::update.
Rank(s) == CHOOSE k \in 1..Len(UpdateOrder) : UpdateOrder[k] = s

\* C7: within a tick the created stores among proc_stats, disk_stats,
\* net_stats and mem_stats are refreshed in that fixed order of the fields,
\* whatever the order in which they were created.
C7_FieldOrder ==
    \A i, j \in 1..Len(trace) :
        (i < j /\ trace[i].ev = "update" /\ trace[j].ev = "update") =>
            /\ trace[i].store \in UpdateStores
            /\ trace[j].store \in UpdateStores
            /\ Rank(trace[i].store) < Rank(trace[j].store)

\* A tick has refreshed two stores, the one created later first.
C7_Witness ==
    \E i, j \in 1..Len(trace) :
        /\ i < j
        /\ trace[i].ev = "update"
        /\ trace[j].ev = "update"
        /\ registry[trace[i].store] > registry[trace[j].store]

\* The construction of store s has just failed in its initial read.
FailedNew(s) ==
    /\ trace # <<>>
    /\ trace[1] = Read("new", s, Err)

\* C10: when the initial read of a store fails, the failure is logged, the
\* get_* call still returns a handle, the store is registered and both its
\* generations are the zero snapshot; the next tick reads it like any store
\* that AllStats::update visits, and a successful read then refreshes it.
C10_FailedInitialRead ==
    /\ [](\A s \in Stores : FailedNew(s) =>
             /\ trace = <<Read("new", s, Err), Log(s)>>
             /\ s \in Created
             /\ \E w \in Built : handle[w] = [store |-> s, cell |-> registry[s]]
             /\ cells[registry[s]].a = new_zero
             /\ cells[registry[s]].b = new_zero
             /\ time_delta(cells[registry[s]]) = 0)
    /\ [][\A s \in UpdateStores :
             (FailedNew(s) /\ TickStep) =>
                 /\ UpdatesOf(trace', s) # {}
                 /\ \A i \in UpdatesOf(trace', s) :
                       trace'[i].ok => get_new_and_old(cells'[registry[s]])
                                         = <<trace'[i].val, new_zero>>]_vars

\* A store whose initial read failed is registered with zero generations and
\* held by a widget.
C10_Witness ==
    \E s \in UpdateStores :
        /\ FailedNew(s)
        /\ s \in Created
        /\ handle["w1"].store = s
        /\ get_new_and_old(cells[registry[s]]) = <<new_zero, new_zero>>

\* The stores whose file the latest call read.
ReadIn(tr) ==
    {tr[i].store : i \in {j \in 1..Len(tr) : tr[j].ev \in {"new", "update"}}}

\* C11: a store whose get_* accessor has never been called is never read,
\* by no tick; the first read of a store is the one of StatsDelta::new in its
\* first get_* call; from then on its entry exists for the rest of the run.
C11_LazyActivation ==
    /\ [](ReadIn(trace) \subseteq Created)
    /\ [][\A s \in Stores :
             /\ (s \notin Created /\ s \in ReadIn(trace')) =>
                   /\ registry'[s] # None
                   /\ trace'[1].ev = "new"
                   /\ trace'[1].store = s
                   /\ UpdatesOf(trace', s) = {}
             /\ (s \notin Created /\ registry'[s] # None) => s \in ReadIn(trace')
             /\ s \in Created => registry'[s] # None]_vars

\* Ticks have run after the only store was built: six fields are still None
\* and the latest tick has read just the one store that exists.
C11_Witness ==
    /\ Cardinality(Created) = 1
    /\ Created \subseteq UpdateStores
    /\ ReadIn(trace) = Created
    /\ trace[1].ev = "update"
    /\ \E s \in Created : ~cells[registry[s]].a_newer /\ cells[registry[s]].duration = 0
    /\ clock = MaxTime

\* The positions of the trace at which try_borrow_mut() on store s failed.
BusyOf(tr, s) == {i \in 1..Len(tr) : tr[i] = Busy(s)}

\* C12: in a tick that finds a store borrowed, that store is not read, the
\* failure is logged once, its generations, flag, timestamp and duration stay
\* as they were; every other created store that AllStats::update visits is
\* read and, if its read succeeds, refreshed; the tick completes and updates
\* the widgets.
C12_BorrowedStoreSkipped ==
    [][(TickStep /\ borrowed' = borrowed) =>
          /\ \A s \in Created \cap UpdateStores :
                IF registry[s] \in borrowed
                THEN /\ cells'[registry[s]] = cells[registry[s]]
                     /\ UpdatesOf(trace', s) = {}
                     /\ Cardinality(BusyOf(trace', s)) = 1
                ELSE /\ BusyOf(trace', s) = {}
                     /\ Cardinality(UpdatesOf(trace', s)) = 1
                     /\ \A i \in UpdatesOf(trace', s) :
                           trace'[i].ok =>
                               /\ get_new_and_old(cells'[registry[s]])
                                    = <<trace'[i].val, get_new(cells[registry[s]])>>
                               /\ cells'[registry[s]].timestamp = clock'
          /\ \A w \in Built : seen'[w] # NotSeen]_vars

\* The latest tick found the store visited first borrowed, logged it, and
\* refreshed the store visited after it; the borrowed store still holds the
\* non-zero snapshot of its construction in both generations.
C12_Witness ==
    /\ Len(trace) = 2
    /\ trace[1].ev = "busy"
    /\ trace[2].ev = "update"
    /\ trace[2].ok
    /\ registry[trace[1].store] \in borrowed
    /\ cells[registry[trace[1].store]].a # new_zero
    /\ cells[registry[trace[1].store]].a_newer
    /\ ~cells[registry[trace[2].store]].a_newer
    /\ cells[registry[trace[2].store]].timestamp = clock
    /\ clock > 0

\* C13: however many updates have run, a StatsDelta consists of the two
\* generations a and b (and flag, timestamp, duration), and the two
\* references of get_new_and_old() point to different generations, one to a
\* and the other to b, also when the two snapshots are equal.
C13_TwoGenerations ==
    delta # NoDelta =>
        /\ DOMAIN delta = Generations \cup {"a_newer", "timestamp", "duration"}
        /\ get_new_and_old_refs(delta)[1] # get_new_and_old_refs(delta)[2]
        /\ {get_new_and_old_refs(delta)[1], get_new_and_old_refs(delta)[2]}
             = Generations
        /\ get_new_and_old(delta)[1] = get_new(delta)
        /\ get_new_and_old(delta) \in {<<delta.a, delta.b>>, <<delta.b, delta.a>>}

\* Updates have made b the newer generation, and both generations hold equal
\* snapshots.
C13_Witness ==
    /\ last.op = "update"
    /\ last.ok
    /\ Len(okTimes) = 2
    /\ ~delta.a_newer
    /\ delta.a = delta.b
    /\ delta.a # new_zero

\* ------------------------------------------------------- read.rs, config.rs
\* The longest file content considered, in bytes.
MaxLen == 3
\* u64::MAX scaled down: max_size ranges over 0..MaxLimit, and max_size + 1
\* overflows at MaxLimit.
MaxLimit == 4
\* MAX_CONFIG_FILE_SIZE (50 MiB) scaled down to the contents considered.
MAX_CONFIG_FILE_SIZE == 2

\* The bytes of a file: "a" is an ASCII character, "L" the first and "C" the
\* second byte of a two-byte UTF-8 character.
Bytes == {"a", "L", "C"}

Contents == UNION {[1..n -> Bytes] : n \in 0..MaxLen}

\* What is at a path: a file that opens and reads as bytes, no file, or a file
\* that open() refuses.
Files ==
    [state : {"ok"}, bytes : Contents]
        \cup {[state |-> st, bytes |-> <<>>] : st \in {"missing", "denied"}}

\* std::str::from_utf8 on a byte string: does it decode?
RECURSIVE ValidUtf8(_)
ValidUtf8(bs) ==
    IF bs = <<>> THEN TRUE
    ELSE IF Head(bs) = "a" THEN ValidUtf8(Tail(bs))
    ELSE IF Head(bs) = "L"
    THEN Len(bs) >= 2 /\ bs[2] = "C" /\ ValidUtf8(SubSeq(bs, 3, Len(bs)))
    ELSE FALSE

\* Err(std::io::Error) of a kind, with a message; nread bytes were read.
IoErr(kind, msg, nread) ==
    [ok |-> FALSE, kind |-> kind, msg |-> msg, val |-> <<>>, nread |-> nread]

\* Ok(String); nread bytes were read.
IoOk(s, nread) ==
    [ok |-> TRUE, kind |-> "", msg |-> "", val |-> s, nread |-> nread]

\* The arithmetic overflow panic of a build with overflow checks.
Panic == [ok |-> FALSE, kind |-> "panic", msg |-> "attempt to add with overflow",
          val |-> <<>>, nread |-> 0]

\* Take::read_to_string: the first lim bytes of the file.
Take(bs, lim) == SubSeq(bs, 1, IF Len(bs) < lim THEN Len(bs) ELSE lim)

\* read_to_string_with_limit that takes max_size bytes instead of max_size + 1.
read_to_string_with_limit_short(file, max_size, build) ==
    IF file.state = "missing" THEN IoErr("NotFound", "No such file", 0)
    ELSE IF file.state = "denied" THEN IoErr("PermissionDenied", "Permission denied", 0)
    ELSE IF max_size + 1 > MaxLimit /\ build = "debug" THEN Panic
    ELSE LET buffer == Take(file.bytes, max_size)
         IN  IF ~ValidUtf8(buffer)
             THEN IoErr("InvalidData", "stream did not contain valid UTF-8",
                        Len(buffer))
             ELSE IF Len(buffer) > max_size
             THEN IoErr("InvalidData", "file is too large", Len(buffer))
             ELSE IoOk(buffer, Len(buffer))

\* read_to_string_with_limit(path, max_size): open (`?`), take(max_size + 1)
\* (u64 addition: panics or wraps on overflow, by build), read_to_string
\* (`?`: InvalidData if the bytes read are not UTF-8), then the length check.
read_to_string_with_limit(file, max_size, build) ==
    IF file.state = "missing" THEN IoErr("NotFound", "No such file", 0)
    ELSE IF file.state = "denied" THEN IoErr("PermissionDenied", "Permission denied", 0)
    ELSE IF max_size + 1 > MaxLimit /\ build = "debug" THEN Panic
    ELSE LET buffer == Take(file.bytes, (max_size + 1) % (MaxLimit + 1))
         IN  IF ~ValidUtf8(buffer)
             THEN IoErr("InvalidData", "stream did not contain valid UTF-8",
                        Len(buffer))
             ELSE IF Len(buffer) > max_size
             THEN IoErr("InvalidData", "file is too large", Len(buffer))
             ELSE IoOk(buffer, Len(buffer))

\* read_config_contents(path): NotFound reads as an empty file, InvalidData
\* is reported as "config file is too large", other errors are passed on.
read_config_contents(file, build) ==
    LET r == read_to_string_with_limit(file, MAX_CONFIG_FILE_SIZE, build)
    IN  IF r.ok THEN r
        ELSE IF r.kind = "NotFound" THEN IoOk(<<>>, r.nread)
        ELSE IF r.kind = "InvalidData"
        THEN [r EXCEPT !.kind = "anyhow", !.msg = "config file is too large"]
        ELSE r

\* The calls considered: a path, a limit and the build of the program.
ReadArgs ==
    [fn : {"read_to_string_with_limit"}, file : Files, max_size : 0..MaxLimit,
     build : {"debug", "release"}]
        \cup [fn : {"read_config_contents"}, file : Files,
              max_size : {MAX_CONFIG_FILE_SIZE}, build : {"debug", "release"}]

InitRead == InitStats /\ arg \in ReadArgs /\ ret = NoRet

\* read_to_string_with_limit(path, max_size) is called.
CallRead ==
    /\ arg.fn = "read_to_string_with_limit"
    /\ ret = NoRet
    /\ ret' = read_to_string_with_limit(arg.file, arg.max_size, arg.build)
    /\ UNCHANGED <<clock, regVars, deltaVars, arg>>

\* read_config_contents(path) is called.
CallReadConfig ==
    /\ arg.fn = "read_config_contents"
    /\ ret = NoRet
    /\ ret' = read_config_contents(arg.file, arg.build)
    /\ UNCHANGED <<clock, regVars, deltaVars, arg>>

NextRead == CallRead \/ CallReadConfig

\* One call of the bounded reader, or of the configuration reader above it.
SpecRead == InitRead /\ [][NextRead]_vars

\* A call of read_to_string_with_limit on a text file (one that opens and whose
\* bytes decode) has returned.
ReadReturned ==
    /\ arg.fn = "read_to_string_with_limit"
    /\ ret # NoRet
    /\ arg.file.state = "ok"
    /\ ValidUtf8(arg.file.bytes)

\* C14, as stated: for a text file and any max, the reader returns the complete
\* content if and only if the content is at most max bytes long, a longer
\* content gives the error "file is too large", and at most max + 1 bytes are
\* read.
C14_ContentIffWithinLimit ==
    ReadReturned =>
        /\ (ret.ok /\ ret.val = arg.file.bytes)
               <=> (Len(arg.file.bytes) <= arg.max_size)
        /\ Len(arg.file.bytes) > arg.max_size
               => (~ret.ok /\ ret.msg = "file is too large")
        /\ ret.nread <= arg.max_size + 1

\* C14, amended: for a text file and max below u64::MAX, the reader returns
\* Ok exactly when the content is at most max bytes long, and then the whole
\* content; a longer content gives an InvalidData error, "file is too large"
\* when the first max + 1 bytes decode and the UTF-8 error when they end inside
\* a character; at most max + 1 bytes are read.
C14_BoundedRead ==
    (ReadReturned /\ arg.max_size < MaxLimit) =>
        /\ ret.ok <=> (Len(arg.file.bytes) <= arg.max_size)
        /\ ret.ok => ret.val = arg.file.bytes
        /\ ~ret.ok =>
               /\ ret.kind = "InvalidData"
               /\ ret.msg = IF ValidUtf8(Take(arg.file.bytes, arg.max_size + 1))
                            THEN "file is too large"
                            ELSE "stream did not contain valid UTF-8"
        /\ ret.nread <= arg.max_size + 1

\* A content one byte over the limit was refused as too large, after max + 1
\* bytes were read.
C14_Witness ==
    /\ ReadReturned
    /\ arg.max_size < MaxLimit
    /\ Len(arg.file.bytes) = arg.max_size + 1
    /\ ~ret.ok
    /\ ret.msg = "file is too large"
    /\ ret.nread = arg.max_size + 1

\* C15: only an oversize content is reported with the error kind of "too
\* large": an InvalidData error of the reader, and the "config file is too
\* large" error of read_config_contents, occur only when the content is longer
\* than the limit.
C15_TooLargeOnlyWhenOversize ==
    /\ (arg.fn = "read_to_string_with_limit" /\ ret # NoRet
           /\ ~ret.ok /\ ret.kind = "InvalidData")
           => Len(arg.file.bytes) > arg.max_size
    /\ (arg.fn = "read_config_contents" /\ ret # NoRet
           /\ ~ret.ok /\ ret.msg = "config file is too large")
           => Len(arg.file.bytes) > MAX_CONFIG_FILE_SIZE

\* ------------------------------------------------------ strings (&str)
\* A string is the sequence of its characters.
\* u64::MAX scaled down: a decimal number above it does not parse.
MaxU64 == 99

Digits == <<"0", "1", "2", "3", "4", "5", "6", "7", "8", "9">>

IsDigit(c) == \E i \in 1..Len(Digits) : Digits[i] = c

DigitVal(c) == (CHOOSE i \in 1..Len(Digits) : Digits[i] = c) - 1

\* The value of a non-empty string of digits, capped just above MaxU64.
RECURSIVE Decimal(_)
Decimal(ds) ==
    IF ds = <<>> THEN 0
    ELSE LET hi == Decimal(SubSeq(ds, 1, Len(ds) - 1))
             v == hi * 10 + DigitVal(ds[Len(ds)])
         IN  IF v > MaxU64 THEN MaxU64 + 1 ELSE v

\* Ok(v) and Err of an integer parse.
NumOk(v) == [ok |-> TRUE, val |-> v]

NumErr == [ok |-> FALSE, val |-> 0]

\* str::parse::<uN>() for the unsigned type with maximum max: an optional
\* '+', then one or more digits and nothing else, the value within the type.
parse_uint(s, max) ==
    LET ds == IF s # <<>> /\ s[1] = "+" THEN Tail(s) ELSE s
    IN  IF ds = <<>> \/ (\E i \in 1..Len(ds) : ~IsDigit(ds[i])) THEN NumErr
        ELSE IF Decimal(ds) > max THEN NumErr
        ELSE NumOk(Decimal(ds))

\* str::parse::<u64>().
parse_u64(s) == parse_uint(s, MaxU64)

\* str::starts_with(p).
starts_with(s, p) == Len(s) >= Len(p) /\ SubSeq(s, 1, Len(p)) = p

\* str::find(p): the index of the first occurrence of p in s, 0 for None.
find(s, p) ==
    LET at == {i \in 1..(Len(s) - Len(p) + 1) : SubSeq(s, i, i + Len(p) - 1) = p}
    IN  IF at = {} THEN 0 ELSE CHOOSE i \in at : \A j \in at : i <= j

\* str::split(c): the pieces of s between the occurrences of character c.
RECURSIVE split(_, _)
split(s, c) ==
    LET i == find(s, <<c>>)
    IN  IF i = 0 THEN <<s>>
        ELSE <<SubSeq(s, 1, i - 1)>> \o split(SubSeq(s, i + 1, Len(s)), c)

\* The strings of ws joined with the separator sep between them.
RECURSIVE join(_, _)
join(ws, sep) ==
    IF ws = <<>> THEN <<>>
    ELSE IF Len(ws) = 1 THEN ws[1]
    ELSE ws[1] \o sep \o join(Tail(ws), sep)

\* ------------------------------------------------ collectors/pressure.rs
\* "some ", "full " and "total=".
SOME_PREFIX == <<"s", "o", "m", "e", " ">>

FULL_PREFIX == <<"f", "u", "l", "l", " ">>

TOTAL_PREFIX == <<"t", "o", "t", "a", "l", "=">>

\* Ok((some, full)) and Err(StatsError::ParseError) of the pressure parser.
PressureOk(some, full) == [ok |-> TRUE, some |-> some, full |-> full]

PressureErr == [ok |-> FALSE, some |-> 0, full |-> 0]

\* parse_pressure_line(data): everything after the first "total=" is parsed
\* as a u64; no "total=" is a ParseError.
parse_pressure_line(data) ==
    LET start == find(data, TOTAL_PREFIX)
    IN  IF start = 0 THEN NumErr
        ELSE parse_u64(SubSeq(data, start + Len(TOTAL_PREFIX), Len(data)))

\* The loop of parse_pressure_data over the lines from the k-th on, with the
\* values of some and full so far; `?` returns at the first failing line.
RECURSIVE parse_pressure_lines(_, _, _, _)
parse_pressure_lines(lines, k, some, full) ==
    IF k > Len(lines) THEN PressureOk(some, full)
    ELSE IF starts_with(lines[k], SOME_PREFIX)
    THEN LET r == parse_pressure_line(
                      SubSeq(lines[k], Len(SOME_PREFIX) + 1, Len(lines[k])))
         IN  IF r.ok THEN parse_pressure_lines(lines, k + 1, r.val, full)
             ELSE PressureErr
    ELSE IF starts_with(lines[k], FULL_PREFIX)
    THEN LET r == parse_pressure_line(
                      SubSeq(lines[k], Len(FULL_PREFIX) + 1, Len(lines[k])))
         IN  IF r.ok THEN parse_pressure_lines(lines, k + 1, some, r.val)
             ELSE PressureErr
    ELSE parse_pressure_lines(lines, k + 1, some, full)

\* parse_pressure_data that wants a "some " line and a "full " line.
parse_pressure_data_both(data) ==
    LET lines == split(data, "\n")
    IN  IF /\ \E k \in 1..Len(lines) : starts_with(lines[k], SOME_PREFIX)
           /\ \E k \in 1..Len(lines) : starts_with(lines[k], FULL_PREFIX)
        THEN parse_pressure_lines(lines, 1, 0, 0)
        ELSE PressureErr

\* parse_pressure_data(data): some = full = 0, then the loop over
\* data.split('\n').
parse_pressure_data(data) == parse_pressure_lines(split(data, "\n"), 1, 0, 0)

\* CpuPressure::read(): the parse of the content of /proc/pressure/cpu, as the
\* result of one read; the snapshot (some, full) is numbered
\* some * (MaxU64 + 1) + full, so that new_zero is the snapshot (0, 0).
CpuPressure_read(data) ==
    LET r == parse_pressure_data(data)
    IN  IF r.ok THEN [ok |-> TRUE, val |-> r.some * (MaxU64 + 1) + r.full]
        ELSE Err

\* The tokens of a pressure line: an average, counters, and a counter without
\* its number.
AVG == <<"a", "=", "0">>

PressureTokens == {AVG, TOTAL_PREFIX \o <<"5">>, TOTAL_PREFIX \o <<"1", "7">>,
                   TOTAL_PREFIX}

\* The most tokens after the prefix of a line.
MaxTokens == 2

\* What follows the prefix of a line: 1..n tokens with one space between them.
Bodies(n) ==
    {join(ws, <<" ">>) : ws \in UNION {[1..k -> PressureTokens] : k \in 1..n}}

\* The prefixes of the two lines of a file: in the kernel's order, swapped,
\* one of the two lines of another kind, and the same prefix twice.
PrefixPairs ==
    {<<SOME_PREFIX, FULL_PREFIX>>, <<FULL_PREFIX, SOME_PREFIX>>,
     <<SOME_PREFIX, <<>>>>, <<<<>>, FULL_PREFIX>>, <<SOME_PREFIX, SOME_PREFIX>>}

\* Pressure files in the shape of TEST_DATA: an empty line, two lines, and
\* the final newline.
PressureData(pairs, n) ==
    {<<"\n">> \o pp[1] \o b1 \o <<"\n">> \o pp[2] \o b2 \o <<"\n">> :
         pp \in pairs, b1 \in Bodies(n), b2 \in Bodies(n)}

InitPressureParse ==
    /\ InitStats
    /\ arg \in [fn : {"parse_pressure_data"},
                data : PressureData(PrefixPairs, MaxTokens)]
    /\ ret = NoRet

\* parse_pressure_data(data) is called.
CallPressureParse ==
    /\ ret = NoRet
    /\ ret' = parse_pressure_data(arg.data)
    /\ UNCHANGED <<clock, regVars, deltaVars, arg>>

\* One call of the pressure parser.
SpecPressureParse == InitPressureParse /\ [][CallPressureParse]_vars

\* The places of the tokens of a line that begin with "total=".
TotalTokens(line) ==
    LET ws == split(line, " ")
    IN  {i \in 1..Len(ws) : starts_with(ws[i], TOTAL_PREFIX)}

\* The characters after "total=" in the one such token of the line.
TotalText(line) ==
    LET ws == split(line, " ")
        i == CHOOSE j \in TotalTokens(line) : TRUE
    IN  SubSeq(ws[i], Len(TOTAL_PREFIX) + 1, Len(ws[i]))

\* The line holds exactly one token total=<int>.
HasOneTotal(line) ==
    Cardinality(TotalTokens(line)) = 1 /\ parse_u64(TotalText(line)).ok

\* The number in the token total=<int> of the last line of data that begins
\* with prefix, 0 when no line does.
TotalFor(data, prefix) ==
    LET lines == split(data, "\n")
        at == {k \in 1..Len(lines) : starts_with(lines[k], prefix)}
    IN  IF at = {} THEN 0
        ELSE parse_u64(TotalText(lines[CHOOSE k \in at : \A j \in at : j <= k])).val

\* Every line of data that begins with "some " or "full " holds exactly one
\* token total=<int>.
AllHaveTotal(data) ==
    LET lines == split(data, "\n")
    IN  \A k \in 1..Len(lines) :
            (starts_with(lines[k], SOME_PREFIX) \/ starts_with(lines[k], FULL_PREFIX))
                => HasOneTotal(lines[k])

\* C17: when each "some " and "full " line holds one token total=<int>, the
\* parse succeeds and that token supplies the value, wherever in the line the
\* token stands, also when other tokens follow it.
C17_TotalAnywhere ==
    (ret # NoRet /\ arg.fn = "parse_pressure_data" /\ AllHaveTotal(arg.data)) =>
        /\ ret.ok
        /\ ret.some = TotalFor(arg.data, SOME_PREFIX)
        /\ ret.full = TotalFor(arg.data, FULL_PREFIX)

\* ------------------------------------------ a pressure store in the bar
\* The contents of /proc/pressure/cpu considered while the bar runs: the two
\* lines in the kernel's order, one token each.
TickData == PressureData({<<SOME_PREFIX, FULL_PREFIX>>}, 1)

\* A pressure widget w is built: get_cpu_pressure(), and StatsDelta::new()
\* reads and parses /proc/pressure/cpu (holding data) if the store is new.
GetPressure(w) ==
    /\ handle[w] = NoHandle
    /\ w = "w2" => handle["w1"] # NoHandle
    /\ \E data \in TickData :
          LET g == get_stat(registry, cells, "cpu_pressure", clock,
                            CpuPressure_read(data))
          IN  /\ registry' = g.registry
              /\ cells' = g.cells
              /\ handle' = [handle EXCEPT
                               ![w] = [store |-> "cpu_pressure", cell |-> g.handle]]
              /\ trace' = g.trace
              /\ IF registry["cpu_pressure"] = None
                 THEN /\ arg' = [fn |-> "get_cpu_pressure", data |-> data]
                      /\ ret' = parse_pressure_data(data)
                 ELSE UNCHANGED <<arg, ret>>
    /\ UNCHANGED <<clock, seen, borrowed, deltaVars>>

\* One timer tick while /proc/pressure/cpu holds data.
TickPressure ==
    /\ \E data \in TickData :
          LET rr == [s \in {"cpu_pressure"} |-> CpuPressure_read(data)]
              u == process_tick(cells, borrowed, registry, handle, seen,
                                NextInstant, rr)
          IN  /\ cells' = u.cells
              /\ trace' = u.trace
              /\ seen' = u.seen
              /\ arg' = [fn |-> "process_tick", data |-> data]
    /\ clock' = NextInstant
    /\ UNCHANGED <<registry, handle, borrowed, deltaVars, ret>>

NextPressure == (\E w \in Widgets : GetPressure(w)) \/ TickPressure

\* Pressure widgets are built, the timer ticks.
SpecPressure == Init /\ [][NextPressure]_vars

\* A line of data begins with "some " or "full " and holds no "total=".
LacksTotal(data) ==
    LET lines == split(data, "\n")
    IN  \E k \in 1..Len(lines) :
            /\ starts_with(lines[k], SOME_PREFIX) \/ starts_with(lines[k], FULL_PREFIX)
            /\ find(lines[k], TOTAL_PREFIX) = 0

\* C16: a "some " or "full " line without "total=" makes the whole parse
\* fail; the refresh of the pressure store then fails for that tick only (the
\* store is left as it was and the error is logged), and a tick with a
\* well-formed file refreshes the store with the parsed snapshot.
C16_PressureRefresh ==
    /\ [](arg.fn = "get_cpu_pressure" /\ LacksTotal(arg.data) => ~ret.ok)
    /\ [][(arg'.fn = "process_tick" /\ registry["cpu_pressure"] # None
              /\ registry' = registry) =>
             LET c == registry["cpu_pressure"]
                 r == CpuPressure_read(arg'.data)
             IN  IF r.ok
                 THEN /\ get_new(cells'[c]) = r.val
                      /\ cells'[c].timestamp = clock'
                 ELSE /\ cells'[c] = cells[c]
                      /\ Log("cpu_pressure") \in {trace'[i] : i \in 1..Len(trace')}
          ]_vars

\* ----------------------------------------------- collectors/diskstats.rs
\* u32::MAX scaled down (below MaxU64).
MaxU32 == 50

\* char::is_whitespace, for the characters considered.
Whitespace == {" ", "\t"}

\* str::trim_start().
RECURSIVE trim_start(_)
trim_start(s) ==
    IF s # <<>> /\ s[1] \in Whitespace THEN trim_start(Tail(s)) ELSE s

\* str::split_once(c): the text before and after the first c, or None.
split_once(s, c) ==
    LET i == find(s, <<c>>)
    IN  IF i = 0 THEN [some |-> FALSE, left |-> <<>>, right |-> <<>>]
        ELSE [some |-> TRUE, left |-> SubSeq(s, 1, i - 1),
              right |-> SubSeq(s, i + 1, Len(s))]

\* The assignments of DiskStats::parse in their order: the field, the maximum
\* of its type, and whether a missing token is an error (ok_or(MissingField))
\* or reads as 0 (map_or(Ok(0), ..)).
DiskFields ==
    << [name |-> "num_reads", max |-> MaxU64, need |-> TRUE],
       [name |-> "num_reads_merged", max |-> MaxU64, need |-> TRUE],
       [name |-> "num_sectors_read", max |-> MaxU64, need |-> TRUE],
       [name |-> "ms_reading", max |-> MaxU32, need |-> TRUE],
       [name |-> "num_writes", max |-> MaxU64, need |-> TRUE],
       [name |-> "num_writes_merged", max |-> MaxU64, need |-> TRUE],
       [name |-> "num_sectors_written", max |-> MaxU64, need |-> TRUE],
       [name |-> "ms_writing", max |-> MaxU32, need |-> TRUE],
       [name |-> "iops_in_progress", max |-> MaxU32, need |-> TRUE],
       [name |-> "ms_doing_io", max |-> MaxU32, need |-> TRUE],
       [name |-> "weighted_ms_doing_io", max |-> MaxU32, need |-> TRUE],
       [name |-> "num_discards", max |-> MaxU64, need |-> FALSE],
       [name |-> "num_discards_merged", max |-> MaxU64, need |-> FALSE],
       [name |-> "num_sectors_discarded", max |-> MaxU64, need |-> FALSE],
       [name |-> "ms_discarding", max |-> MaxU32, need |-> TRUE],
       [name |-> "num_flushes", max |-> MaxU64, need |-> FALSE],
       [name |-> "ms_flushing", max |-> MaxU32, need |-> TRUE] >>

DiskFieldNames == {DiskFields[k].name : k \in 1..Len(DiskFields)}

\* DiskStats::zero().
DiskStats_zero == [f \in DiskFieldNames |-> 0]

\* Ok(d) and Err(ParseError) of DiskStats::parse.
DiskOk(d) == [ok |-> TRUE, d |-> d, err |-> ""]

DiskErr(e) == [ok |-> FALSE, d |-> DiskStats_zero, err |-> e]

\* DiskStats::parse from its k-th assignment on: iter.next() is ws[k], or
\* None past the end of ws; `?` returns the first error.
RECURSIVE DiskStats_parse_from(_, _, _)
DiskStats_parse_from(ws, k, d) ==
    IF k > Len(DiskFields) THEN DiskOk(d)
    ELSE LET f == DiskFields[k]
         IN  IF k <= Len(ws)
             THEN LET r == parse_uint(ws[k], f.max)
                  IN  IF r.ok
                      THEN DiskStats_parse_from(ws, k + 1,
                                                [d EXCEPT ![f.name] = r.val])
                      ELSE DiskErr("ParseIntError")
             ELSE IF f.need THEN DiskErr("MissingField")
             ELSE DiskStats_parse_from(ws, k + 1, [d EXCEPT ![f.name] = 0])

\* DiskStats::parse(line): the tokens of line.split(' '), assigned in turn.
DiskStats_parse(line) == DiskStats_parse_from(split(line, " "), 1, DiskStats_zero)

\* HashMap::insert(name, v) on a map held as the set of its entries.
insert(m, name, v) ==
    {e \in m : e.name # name} \cup {[name |-> name, stats |-> v]}

\* Ok(()) and Err of parse_line, with the map afterwards.
LineOk(m) == [ok |-> TRUE, map |-> m]

LineErr(m) == [ok |-> FALSE, map |-> m]

\* ProcDiskStats::parse_line that records a device whose fields do not parse
\* with zero counters.
ProcDiskStats_parse_line_zeroed(disks, line) ==
    IF line = <<>> THEN LineOk(disks)
    ELSE LET major == split_once(trim_start(line), " ")
             minor == split_once(trim_start(major.right), " ")
             name == split_once(trim_start(minor.right), " ")
             d == DiskStats_parse(name.right)
         IN  IF ~major.some \/ ~minor.some \/ ~name.some THEN LineErr(disks)
             ELSE IF ~d.ok THEN LineErr(insert(disks, name.left, DiskStats_zero))
             ELSE LineOk(insert(disks, name.left, d.d))

\* ProcDiskStats::parse_line(&mut self, line): an empty line is Ok; major,
\* minor and name are split off at single spaces, each after trim_start();
\* the entry is inserted only when DiskStats::parse of the rest returned Ok.
ProcDiskStats_parse_line(disks, line) ==
    IF line = <<>> THEN LineOk(disks)
    ELSE LET major == split_once(trim_start(line), " ")
             minor == split_once(trim_start(major.right), " ")
             name == split_once(trim_start(minor.right), " ")
             d == DiskStats_parse(name.right)
         IN  IF ~major.some \/ ~minor.some \/ ~name.some THEN LineErr(disks)
             ELSE IF ~d.ok THEN LineErr(disks)
             ELSE LineOk(insert(disks, name.left, d.d))

\* The loop of ProcDiskStats::parse over the lines from the k-th on; the
\* error of a line is ignored.
RECURSIVE ProcDiskStats_parse_lines(_, _, _)
ProcDiskStats_parse_lines(lines, k, disks) ==
    IF k > Len(lines) THEN disks
    ELSE ProcDiskStats_parse_lines(lines, k + 1,
             ProcDiskStats_parse_line(disks, lines[k]).map)

\* ProcDiskStats::parse(data): an empty map, then every line of
\* data.split('\n').
ProcDiskStats_parse(data) == ProcDiskStats_parse_lines(split(data, "\n"), 1, {})

\* ------------------------------------------------------ collectors/net.rs
\* str::split_whitespace(): the non-empty pieces between runs of whitespace.
RECURSIVE split_whitespace(_)
split_whitespace(s) ==
    LET u == trim_start(s)
        ws == {i \in 1..Len(u) : u[i] \in Whitespace}
        n == IF ws = {} THEN Len(u)
             ELSE (CHOOSE i \in ws : \A j \in ws : i <= j) - 1
    IN  IF u = <<>> THEN <<>>
        ELSE <<SubSeq(u, 1, n)>> \o split_whitespace(SubSeq(u, n + 1, Len(u)))

\* The fields of InterfaceStats in the order of the array in parse.
NetFields ==
    <<"rx_bytes", "rx_packets", "rx_errs", "rx_drop", "rx_fifo", "rx_frame",
      "rx_compressed", "rx_multicast", "tx_bytes", "tx_packets", "tx_errs",
      "tx_drop", "tx_fifo", "tx_colls", "tx_carrier", "tx_compressed">>

\* InterfaceStats::zero().
InterfaceStats_zero == [f \in {NetFields[k] : k \in 1..Len(NetFields)} |-> 0]

\* Ok(s) and Err(ParseError) of InterfaceStats::parse.
NetOk(s) == [ok |-> TRUE, s |-> s]

NetErr == [ok |-> FALSE, s |-> InterfaceStats_zero]

\* The loop of InterfaceStats::parse from the k-th pair of the zip on: it ends
\* with the shorter of the tokens and the fields.
RECURSIVE InterfaceStats_parse_from(_, _, _)
InterfaceStats_parse_from(ws, k, s) ==
    IF k > Len(ws) \/ k > Len(NetFields) THEN NetOk(s)
    ELSE LET r == parse_u64(ws[k])
         IN  IF r.ok
             THEN InterfaceStats_parse_from(ws, k + 1,
                                            [s EXCEPT ![NetFields[k]] = r.val])
             ELSE NetErr

\* InterfaceStats::parse(line).
InterfaceStats_parse(line) ==
    InterfaceStats_parse_from(split_whitespace(line), 1, InterfaceStats_zero)

\* NetDevStats::parse_line that takes the name untrimmed.
NetDevStats_parse_line_untrimmed(interfaces, line) ==
    IF line = <<>> THEN LineOk(interfaces)
    ELSE LET name == split_once(line, ":")
             s == InterfaceStats_parse(name.right)
         IN  IF ~name.some THEN LineErr(interfaces)
             ELSE IF ~s.ok THEN LineErr(interfaces)
             ELSE LineOk(insert(interfaces, name.left, s.s))

\* NetDevStats::parse_line(&mut self, line): an empty line is Ok; the name is
\* what stands before the first ':' after trim_start(); the entry is inserted
\* only when InterfaceStats::parse of the rest returned Ok.
NetDevStats_parse_line(interfaces, line) ==
    IF line = <<>> THEN LineOk(interfaces)
    ELSE LET name == split_once(trim_start(line), ":")
             s == InterfaceStats_parse(name.right)
         IN  IF ~name.some THEN LineErr(interfaces)
             ELSE IF ~s.ok THEN LineErr(interfaces)
             ELSE LineOk(insert(interfaces, name.left, s.s))

\* The loop of NetDevStats::parse over the lines from the k-th on; the error
\* of a line is ignored.
RECURSIVE NetDevStats_parse_lines(_, _, _)
NetDevStats_parse_lines(lines, k, interfaces) ==
    IF k > Len(lines) THEN interfaces
    ELSE NetDevStats_parse_lines(lines, k + 1,
             NetDevStats_parse_line(interfaces, lines[k]).map)

\* NetDevStats::parse that skips no line.
NetDevStats_parse_noskip(data) == NetDevStats_parse_lines(split(data, "\n"), 1, {})

\* NetDevStats::parse(data): an empty map, the first two lines of
\* data.split('\n') skipped, then every line.
NetDevStats_parse(data) == NetDevStats_parse_lines(split(data, "\n"), 3, {})

\* ------------------------------------------- the line parsers, called once
\* The decimal digits of n.
RECURSIVE ToDecimal(_)
ToDecimal(n) ==
    IF n < 10 THEN <<Digits[n + 1]>>
    ELSE ToDecimal(n \div 10) \o <<Digits[(n % 10) + 1]>>

\* The most fields of a device line (one more than DiskStats::parse reads).
MaxFields == 18

\* The most lines of a file after its header.
MaxLines == 2

\* n fields, the k-th holding the number k.
Canon(n) == [k \in 1..n |-> ToDecimal(k)]

\* Tokens that are no integer, or none of the field's type.
BadTokens == {<<"x">>, <<>>, ToDecimal(MaxU32 + 1), ToDecimal(MaxU64 + 1)}

\* The field lists given to DiskStats::parse: 0..MaxFields fields, all
\* numbers or one of them bad.
FieldLists ==
    {Canon(n) : n \in 0..MaxFields}
        \cup {[Canon(n) EXCEPT ![k] = bad] :
                  n \in 1..MaxFields, k \in 1..MaxFields, bad \in BadTokens}

\* The start of a device line of /proc/diskstats, as in TEST_DATA.
Dev(name) == <<" ", " ", "8", " ", " ", " ", "0", " ">> \o name \o <<" ">>

SDA == <<"s", "d", "a">>

SDB == <<"s", "d", "b">>

\* Device lines: complete ones, lines of 11..16 fields, and lines with too
\* few fields, a field that is no number, a field too large for its type, no
\* fields at all, and only spaces.
DiskLines ==
    {Dev(SDA) \o join(Canon(n), <<" ">>) : n \in 10..17}
        \cup {Dev(SDB) \o join(Canon(17), <<" ">>),
              Dev(SDA) \o join([Canon(17) EXCEPT ![1] = <<"9">>], <<" ">>),
              Dev(SDA) \o join([Canon(17) EXCEPT ![2] = <<"x">>], <<" ">>),
              Dev(SDB) \o join([Canon(17) EXCEPT ![4] = ToDecimal(MaxU32 + 1)], <<" ">>),
              <<"8", " ", "0", " ">> \o SDA,
              <<" ", " ">>}

\* Files of 1..n lines out of ls, each ended by a newline, after the header.
Texts(header, ls, n) ==
    {header \o join(f, <<"\n">>) \o <<"\n">> :
         f \in UNION {[1..k -> ls] : k \in 1..n}}

\* The two header lines of /proc/net/dev.
NetHeader == <<"I", "n", "t", "e", "r", "-", "|", "\n", " ", "f", "a", "c", "e", " ", "|", "\n">>

LO == <<" ", " ", "l", "o", ":">>

ETH == <<"e", "t", "h", "0", ":">>

\* Interface lines: complete ones, a short one, and lines with a field that
\* is no number, a number too large, and no colon.
NetLines ==
    {LO \o <<" ">> \o join(Canon(16), <<" ", " ">>),
     LO \o join([Canon(16) EXCEPT ![1] = <<"9">>], <<" ">>),
     ETH \o <<" ">> \o join(Canon(3), <<" ">>),
     ETH \o <<" ">> \o join(Canon(17), <<" ">>),
     LO \o <<" ">> \o join([Canon(3) EXCEPT ![3] = <<"x">>], <<" ">>),
     ETH \o <<" ">> \o join([Canon(16) EXCEPT ![16] = ToDecimal(MaxU64 + 1)], <<" ">>),
     <<"l", "o", " ">> \o join(Canon(16), <<" ">>)}

InitLines ==
    /\ InitStats
    /\ arg \in [fn : {"DiskStats::parse"},
                data : {join(ws, <<" ">>) : ws \in FieldLists}]
           \cup [fn : {"ProcDiskStats::parse"},
                 data : Texts(<<>>, DiskLines, MaxLines)]
           \cup [fn : {"NetDevStats::parse"},
                 data : Texts(NetHeader, NetLines, MaxLines)]
    /\ ret = NoRet

\* DiskStats::parse(line) is called.
CallDiskStatsParse ==
    /\ arg.fn = "DiskStats::parse"
    /\ ret = NoRet
    /\ ret' = DiskStats_parse(arg.data)
    /\ UNCHANGED <<clock, regVars, deltaVars, arg>>

\* ProcDiskStats::parse(data) is called; it returns the map.
CallProcDiskStatsParse ==
    /\ arg.fn = "ProcDiskStats::parse"
    /\ ret = NoRet
    /\ ret' = LineOk(ProcDiskStats_parse(arg.data))
    /\ UNCHANGED <<clock, regVars, deltaVars, arg>>

\* NetDevStats::parse(data) is called; it returns the map.
CallNetDevStatsParse ==
    /\ arg.fn = "NetDevStats::parse"
    /\ ret = NoRet
    /\ ret' = LineOk(NetDevStats_parse(arg.data))
    /\ UNCHANGED <<clock, regVars, deltaVars, arg>>

NextLines == CallDiskStatsParse \/ CallProcDiskStatsParse \/ CallNetDevStatsParse

\* One call of a parser of /proc/diskstats or /proc/net/dev.
SpecLines == InitLines /\ [][NextLines]_vars

\* The first fields of ws, up to the 17 that DiskStats::parse reads, are all
\* numbers of their field's type.
ValidFields(ws) ==
    \A k \in 1..Len(ws) :
        k <= Len(DiskFields) => parse_uint(ws[k], DiskFields[k].max).ok

\* The number in the k-th field of ws, 0 past the end of ws.
FieldOr0(ws, k) == IF k <= Len(ws) THEN parse_u64(ws[k]).val ELSE 0

\* C18: of the fields of a device line, 1-11 are mandatory; 12-14 read as 0
\* when missing; 15 is required only once discard fields are present; 16 and
\* 17 read as 0 when missing; and the fields are assigned in file order (the
\* 4th is ms_reading, the 8th ms_writing, the 9th iops_in_progress).
C18_FieldPolicy ==
    (arg.fn = "DiskStats::parse" /\ ret # NoRet
         /\ ValidFields(split(arg.data, " "))) =>
        LET ws == split(arg.data, " ")
            n == Len(ws)
        IN  /\ n < 11 => ~ret.ok
            /\ n \in 12..14 => ~ret.ok
            /\ (n = 11 \/ n >= 15) =>
                   /\ ret.ok
                   /\ \A k \in 1..Len(DiskFields) :
                          ret.d[DiskFields[k].name] = FieldOr0(ws, k)
                   /\ ret.d["ms_reading"] = FieldOr0(ws, 4)
                   /\ ret.d["ms_writing"] = FieldOr0(ws, 8)
                   /\ ret.d["iops_in_progress"] = FieldOr0(ws, 9)

\* The names of the entries of a map.
Names(m) == {e.name : e \in m}

\* The fields of a device line: its tokens after major, minor and name.
FieldsOf(line) ==
    LET ws == split_whitespace(line)
    IN  SubSeq(ws, 4, Len(ws))

\* C19: every device line with between 11 and 17 fields, all of them numbers,
\* produces an entry of the map under its device name; lines of 11 and of 15
\* fields are not dropped.
C19_ShortLinesKept ==
    (arg.fn = "ProcDiskStats::parse" /\ ret # NoRet) =>
        LET lines == split(arg.data, "\n")
        IN  \A k \in 1..Len(lines) :
                LET ws == split_whitespace(lines[k])
                IN  (Len(ws) - 3 \in 11..17 /\ ValidFields(FieldsOf(lines[k])))
                        => ws[3] \in Names(ret.map)

\* A device line that does not follow the format: fewer than major, minor,
\* name and 11 fields, or one of its first 17 fields is no number of the
\* field's type.
DiskMalformed(line) ==
    /\ line # <<>>
    /\ \/ Len(split_whitespace(line)) < 3 + 11
       \/ ~ValidFields(FieldsOf(line))

\* An interface line that does not follow the format: no colon, or one of its
\* first 16 fields is no number.
NetMalformed(line) ==
    /\ line # <<>>
    /\ \/ find(line, <<":">>) = 0
       \/ LET ws == split_whitespace(split_once(line, ":").right)
          IN  \E k \in 1..Len(ws) : k <= Len(NetFields) /\ ~parse_u64(ws[k]).ok

\* The lines of a file without the k-th, as a file.
Without(lines, k) ==
    join(SubSeq(lines, 1, k - 1) \o SubSeq(lines, k + 1, Len(lines)), <<"\n">>)

\* The file made of the first k lines.
UpTo(lines, k) == join(SubSeq(lines, 1, k), <<"\n">>)

\* C20: ProcDiskStats::parse and NetDevStats::parse always return a map; a
\* malformed line adds no entry and alters none (the map is the same before
\* and after it), and the result is that of the input without the line.
C20_MalformedLineSkipped ==
    /\ (arg.fn = "ProcDiskStats::parse" /\ ret # NoRet) =>
           LET lines == split(arg.data, "\n")
           IN  /\ ret.ok
               /\ \A k \in 1..Len(lines) :
                      DiskMalformed(lines[k]) =>
                          /\ ProcDiskStats_parse(UpTo(lines, k))
                                 = ProcDiskStats_parse(UpTo(lines, k - 1))
                          /\ ret.map = ProcDiskStats_parse(Without(lines, k))
    /\ (arg.fn = "NetDevStats::parse" /\ ret # NoRet) =>
           LET lines == split(arg.data, "\n")
           IN  /\ ret.ok
               /\ \A k \in 3..Len(lines) :
                      NetMalformed(lines[k]) =>
                          /\ NetDevStats_parse(UpTo(lines, k))
                                 = NetDevStats_parse(UpTo(lines, k - 1))
                          /\ ret.map = NetDevStats_parse(Without(lines, k))

\* A malformed line for a device stood after a complete line for the same
\* device, and the map holds that device with the numbers of the complete line.
C20_Witness ==
    /\ arg.fn = "ProcDiskStats::parse"
    /\ ret # NoRet
    /\ LET lines == split(arg.data, "\n")
       IN  /\ ~DiskMalformed(lines[1])
           /\ DiskMalformed(lines[2])
           /\ split_whitespace(lines[1])[3] = SDA
           /\ Len(split_whitespace(lines[2])) >= 3
           /\ split_whitespace(lines[2])[3] = SDA
           /\ ret.map = {[name |-> SDA,
                          stats |-> DiskStats_parse(join(Canon(17), <<" ">>)).d]}

\* ------------------------------------------------ collectors/procstat.rs
\* MAX_NUM_CPUS (2^20) scaled down.
MAX_NUM_CPUS == 3

\* The assignments of CpuStats::parse in their order: the field, and whether
\* a missing token is an error (ok_or(MissingCpuField)) or reads as 0.
CpuFields ==
    << [name |-> "user", need |-> TRUE], [name |-> "nice", need |-> TRUE],
       [name |-> "system", need |-> TRUE], [name |-> "idle", need |-> TRUE],
       [name |-> "iowait", need |-> FALSE], [name |-> "irq", need |-> FALSE],
       [name |-> "softirq", need |-> FALSE], [name |-> "steal", need |-> FALSE],
       [name |-> "guest", need |-> FALSE], [name |-> "guest_nice", need |-> FALSE] >>

CpuFieldNames == {CpuFields[k].name : k \in 1..Len(CpuFields)}

\* CpuStats::zero().
CpuStats_zero == [f \in CpuFieldNames |-> 0]

\* Ok(()) and Err(ParseError) of CpuStats::parse, with *self afterwards.
CpuOk(self) == [ok |-> TRUE, self |-> self, err |-> ""]

CpuErr(self, e) == [ok |-> FALSE, self |-> self, err |-> e]

\* CpuStats::parse that leaves a field without a token as it was.
RECURSIVE CpuStats_parse_keep(_, _, _)
CpuStats_parse_keep(ws, k, self) ==
    IF k > Len(CpuFields) THEN CpuOk(self)
    ELSE LET f == CpuFields[k]
         IN  IF k <= Len(ws)
             THEN LET r == parse_u64(ws[k])
                  IN  IF r.ok
                      THEN CpuStats_parse_keep(ws, k + 1,
                                               [self EXCEPT ![f.name] = r.val])
                      ELSE CpuErr(self, "ParseIntError")
             ELSE IF f.need THEN CpuErr(self, "MissingCpuField")
             ELSE CpuStats_parse_keep(ws, k + 1, self)

\* CpuStats::parse(&mut self, ..) from its k-th assignment on: iter.next() is
\* ws[k], or None past the end of ws; the fields are assigned in place, so
\* `?` returns with the earlier fields already written.
RECURSIVE CpuStats_parse_from(_, _, _)
CpuStats_parse_from(ws, k, self) ==
    IF k > Len(CpuFields) THEN CpuOk(self)
    ELSE LET f == CpuFields[k]
         IN  IF k <= Len(ws)
             THEN LET r == parse_u64(ws[k])
                  IN  IF r.ok
                      THEN CpuStats_parse_from(ws, k + 1,
                                               [self EXCEPT ![f.name] = r.val])
                      ELSE CpuErr(self, "ParseIntError")
             ELSE IF f.need THEN CpuErr(self, "MissingCpuField")
             ELSE CpuStats_parse_from(ws, k + 1, [self EXCEPT ![f.name] = 0])

\* CpuStats::parse(&mut self, line): the tokens of line.split(' ').
CpuStats_parse(self, line) == CpuStats_parse_from(split(line, " "), 1, self)

\* A CpuStats whose fields all hold 7.
CpuStats_sevens == [f \in CpuFieldNames |-> 7]

InitCpuLine ==
    /\ InitStats
    /\ arg \in [fn : {"CpuStats::parse"},
                self : {CpuStats_zero, CpuStats_sevens},
                data : {join(ws, <<" ">>) : ws \in FieldLists}]
    /\ ret = NoRet

\* self.parse(line) is called on a CpuStats.
CallCpuStatsParse ==
    /\ ret = NoRet
    /\ ret' = CpuStats_parse(arg.self, arg.data)
    /\ UNCHANGED <<clock, regVars, deltaVars, arg>>

\* One call of CpuStats::parse.
SpecCpuLine == InitCpuLine /\ [][CallCpuStatsParse]_vars

\* C21: of the tick fields of a cpu line, the first 4 are mandatory (a line
\* with fewer is an error), and each of fields 5-10 that is absent is set to
\* 0, for every count of fields from 4 to 10.
C21_CpuFieldPolicy ==
    (ret # NoRet /\ \A k \in 1..Len(split(arg.data, " ")) :
                        k <= Len(CpuFields) => parse_u64(split(arg.data, " ")[k]).ok) =>
        LET ws == split(arg.data, " ")
            n == Len(ws)
        IN  /\ n < 4 => (~ret.ok /\ ret.err = "MissingCpuField")
            /\ n >= 4 =>
                   /\ ret.ok
                   /\ \A k \in 1..Len(CpuFields) :
                          ret.self[CpuFields[k].name] = FieldOr0(ws, k)

\* A line of exactly 4 fields was parsed into a CpuStats that held 7s: the
\* 4 fields are taken and iowait..guest_nice are 0.
C21_Witness ==
    /\ ret # NoRet
    /\ arg.self = CpuStats_sevens
    /\ arg.data = join(Canon(4), <<" ">>)
    /\ ret.ok
    /\ ret.self["idle"] = 4
    /\ ret.self["iowait"] = 0
    /\ ret.self["guest_nice"] = 0

\* str::strip_prefix(p): Some(rest) when s starts with p, else None.
strip_prefix(s, p) ==
    IF starts_with(s, p)
    THEN [some |-> TRUE, rest |-> SubSeq(s, Len(p) + 1, Len(s))]
    ELSE [some |-> FALSE, rest |-> <<>>]

\* The prefixes that ProcStat::parse_line knows, and the field each sets.
CPU_PREFIX == <<"c", "p", "u">>

AGGREGATE_PREFIX == <<" ", " ">>

ScalarPrefixes ==
    << [prefix |-> <<"b", "t", "i", "m", "e", " ">>, field |-> "boot_time"],
       [prefix |-> <<"c", "t", "x", "t", " ">>, field |-> "num_context_switches"],
       [prefix |-> <<"p", "r", "o", "c", "e", "s", "s", "e", "s", " ">>, field |-> "num_forks"],
       [prefix |-> <<"p", "r", "o", "c", "s", "_", "r", "u", "n", "n", "i", "n", "g", " ">>, field |-> "procs_running"],
       [prefix |-> <<"p", "r", "o", "c", "s", "_", "b", "l", "o", "c", "k", "e", "d", " ">>, field |-> "procs_blocked"] >>

\* The ProcStat that ProcStat::parse starts from (and new_zero()).
ProcStat_zero ==
    [cpu |-> CpuStats_zero, cpus |-> <<>>, num_forks |-> 0,
     num_context_switches |-> 0, procs_running |-> 0, procs_blocked |-> 0,
     boot_time |-> 0]

\* Ok(()) and Err of a line of /proc/stat, with the ProcStat afterwards.
StatOk(ps) == [ok |-> TRUE, ps |-> ps, err |-> ""]

StatErr(ps, e) == [ok |-> FALSE, ps |-> ps, err |-> e]

\* Vec::resize_with(n, CpuStats::zero) on a vector shorter than n.
resize_with(v, n) == v \o [i \in 1..(n - Len(v)) |-> CpuStats_zero]

\* parse_cpu_line without the check of the CPU ID against MAX_NUM_CPUS.
parse_cpu_line_unchecked(ps, line) ==
    LET agg == strip_prefix(line, AGGREGATE_PREFIX)
        id == split_once(line, " ")
        cpu_id == parse_u64(id.left)
        cpus == IF cpu_id.val >= Len(ps.cpus)
                THEN resize_with(ps.cpus, cpu_id.val + 1) ELSE ps.cpus
    IN  IF agg.some
        THEN LET r == CpuStats_parse(ps.cpu, agg.rest)
             IN  [ok |-> r.ok, ps |-> [ps EXCEPT !.cpu = r.self], err |-> r.err]
        ELSE IF ~id.some THEN StatErr(ps, "NoCpuId")
        ELSE IF ~cpu_id.ok THEN StatErr(ps, "ParseIntError")
        ELSE LET r == CpuStats_parse(cpus[cpu_id.val + 1], id.right)
             IN  [ok |-> r.ok,
                  ps |-> [ps EXCEPT !.cpus = [cpus EXCEPT ![cpu_id.val + 1] = r.self]],
                  err |-> r.err]

\* parse_cpu_line that takes every line without a CPU ID as the aggregate.
parse_cpu_line_loose(ps, line) ==
    LET id == split_once(line, " ")
        cpu_id == parse_u64(id.left)
        cpus == IF cpu_id.val >= Len(ps.cpus)
                THEN resize_with(ps.cpus, cpu_id.val + 1) ELSE ps.cpus
    IN  IF line = <<>> \/ ~IsDigit(line[1])
        THEN LET r == CpuStats_parse(ps.cpu, join(split_whitespace(line), <<" ">>))
             IN  [ok |-> r.ok, ps |-> [ps EXCEPT !.cpu = r.self], err |-> r.err]
        ELSE IF ~id.some THEN StatErr(ps, "NoCpuId")
        ELSE IF ~cpu_id.ok THEN StatErr(ps, "ParseIntError")
        ELSE IF cpu_id.val > MAX_NUM_CPUS THEN StatErr(ps, "MaxCpuCountExceeded")
        ELSE LET r == CpuStats_parse(cpus[cpu_id.val + 1], id.right)
             IN  [ok |-> r.ok,
                  ps |-> [ps EXCEPT !.cpus = [cpus EXCEPT ![cpu_id.val + 1] = r.self]],
                  err |-> r.err]

\* ProcStat::parse_cpu_line(&mut self, line), line being what follows "cpu":
\* two spaces introduce the aggregate; otherwise the text before the first
\* space is the CPU ID, refused above MAX_NUM_CPUS; the vector grows to hold
\* the ID, and the entry is parsed in place.
parse_cpu_line(ps, line) ==
    LET agg == strip_prefix(line, AGGREGATE_PREFIX)
        id == split_once(line, " ")
        cpu_id == parse_u64(id.left)
        cpus == IF cpu_id.val >= Len(ps.cpus)
                THEN resize_with(ps.cpus, cpu_id.val + 1) ELSE ps.cpus
    IN  IF agg.some
        THEN LET r == CpuStats_parse(ps.cpu, agg.rest)
             IN  [ok |-> r.ok, ps |-> [ps EXCEPT !.cpu = r.self], err |-> r.err]
        ELSE IF ~id.some THEN StatErr(ps, "NoCpuId")
        ELSE IF ~cpu_id.ok THEN StatErr(ps, "ParseIntError")
        ELSE IF cpu_id.val > MAX_NUM_CPUS THEN StatErr(ps, "MaxCpuCountExceeded")
        ELSE LET r == CpuStats_parse(cpus[cpu_id.val + 1], id.right)
             IN  [ok |-> r.ok,
                  ps |-> [ps EXCEPT !.cpus = [cpus EXCEPT ![cpu_id.val + 1] = r.self]],
                  err |-> r.err]

\* The else-if chain of parse_line over the scalar prefixes from the k-th on.
RECURSIVE parse_scalar_line(_, _, _)
parse_scalar_line(ps, line, k) ==
    IF k > Len(ScalarPrefixes) THEN StatOk(ps)
    ELSE LET data == strip_prefix(line, ScalarPrefixes[k].prefix)
             r == parse_u64(data.rest)
         IN  IF ~data.some THEN parse_scalar_line(ps, line, k + 1)
             ELSE IF r.ok
             THEN StatOk([ps EXCEPT ![ScalarPrefixes[k].field] = r.val])
             ELSE StatErr(ps, "ParseIntError")

\* ProcStat::parse_line(&mut self, line): "cpu" goes to parse_cpu_line, the
\* scalar prefixes set their field, every other line is Ok and changes nothing.
ProcStat_parse_line(ps, line) ==
    LET data == strip_prefix(line, CPU_PREFIX)
    IN  IF data.some THEN parse_cpu_line(ps, data.rest)
        ELSE parse_scalar_line(ps, line, 1)

\* The loop of ProcStat::parse over the lines from the k-th on; the error of
\* a line is ignored.
RECURSIVE ProcStat_parse_lines(_, _, _)
ProcStat_parse_lines(lines, k, ps) ==
    IF k > Len(lines) THEN ps
    ELSE ProcStat_parse_lines(lines, k + 1, ProcStat_parse_line(ps, lines[k]).ps)

\* ProcStat::parse(data): a zero ProcStat, then every line of data.split('\n').
ProcStat_parse(data) == ProcStat_parse_lines(split(data, "\n"), 1, ProcStat_zero)

\* Lines of /proc/stat: aggregate lines (one of them with a single space),
\* per-processor lines up to and above MAX_NUM_CPUS, with a field that is no
\* number and with an ID that is none, scalar lines, and lines of other kinds.
ProcStatLines ==
    {CPU_PREFIX \o <<" ", " ">> \o join(Canon(4), <<" ">>),
     CPU_PREFIX \o <<" ", " ">> \o join([Canon(10) EXCEPT ![1] = <<"9">>], <<" ">>),
     CPU_PREFIX \o <<" ">> \o join(Canon(4), <<" ">>),
     CPU_PREFIX \o <<"0", " ">> \o join(Canon(4), <<" ">>),
     CPU_PREFIX \o <<"2", " ">> \o join([Canon(5) EXCEPT ![1] = <<"9">>], <<" ">>),
     CPU_PREFIX \o ToDecimal(MAX_NUM_CPUS) \o <<" ">> \o join(Canon(4), <<" ">>),
     CPU_PREFIX \o ToDecimal(MAX_NUM_CPUS + 1) \o <<" ">> \o join(Canon(4), <<" ">>),
     CPU_PREFIX \o <<"2", " ", "1", " ", "x">>,
     CPU_PREFIX \o <<"x", " ">> \o join(Canon(4), <<" ">>),
     ScalarPrefixes[1].prefix \o <<"5">>,
     ScalarPrefixes[2].prefix \o <<"6">>,
     ScalarPrefixes[3].prefix \o <<"7">>,
     ScalarPrefixes[4].prefix \o <<"8">>,
     ScalarPrefixes[5].prefix \o <<"9">>,
     ScalarPrefixes[1].prefix \o <<"x">>,
     <<"i", "n", "t", "r", " ", "1", " ", "2">>,
     <<"s", "o", "f", "t", "i", "r", "q", " ", "3">>}

InitProcStat ==
    /\ InitStats
    /\ arg \in [fn : {"ProcStat::parse"}, data : Texts(<<>>, ProcStatLines, MaxLines)]
    /\ ret = NoRet

\* ProcStat::parse(data) is called; it returns the ProcStat.
CallProcStatParse ==
    /\ ret = NoRet
    /\ ret' = StatOk(ProcStat_parse(arg.data))
    /\ UNCHANGED <<clock, regVars, deltaVars, arg>>

\* One call of ProcStat::parse.
SpecProcStat == InitProcStat /\ [][CallProcStatParse]_vars

\* The CpuStats that the tick fields ws describe.
CpuOf(ws) ==
    [f \in CpuFieldNames |->
        FieldOr0(ws, CHOOSE k \in 1..Len(CpuFields) : CpuFields[k].name = f)]

\* ws holds at least the 4 mandatory tick fields, and its first 10 are numbers.
ValidTicks(ws) ==
    /\ Len(ws) >= 4
    /\ \A k \in 1..Len(ws) : k <= Len(CpuFields) => parse_u64(ws[k]).ok

\* The line is 'cpu<N> <ticks>' with N a number up to MAX_NUM_CPUS.
IsCpuN(line) ==
    /\ starts_with(line, CPU_PREFIX)
    /\ Len(line) > 3 /\ IsDigit(line[4])
    /\ LET id == split_once(SubSeq(line, 4, Len(line)), " ")
       IN  id.some /\ parse_u64(id.left).ok /\ parse_u64(id.left).val <= MAX_NUM_CPUS
              /\ ValidTicks(split(id.right, " "))

\* The N of such a line, and its CpuStats.
CpuN(line) == parse_u64(split_once(SubSeq(line, 4, Len(line)), " ").left).val

CpuNStats(line) == CpuOf(split(split_once(SubSeq(line, 4, Len(line)), " ").right, " "))

\* The line begins with one of the scalar prefixes.
IsScalar(line) ==
    \E k \in 1..Len(ScalarPrefixes) : starts_with(line, ScalarPrefixes[k].prefix)

\* The ProcStat before and after the k-th line of the text.
Before(lines, k) == ProcStat_parse(UpTo(lines, k - 1))

After(lines, k) == ProcStat_parse(UpTo(lines, k))

\* What C22 says of per-processor lines, scalar lines and other lines: the
\* k-th line, if 'cpu<N> ..', sets entry N; if a scalar line with a number,
\* sets its scalar; if of no known prefix, changes nothing, and the result is
\* that of the text without it.
DispatchRest(lines, k) ==
    /\ IsCpuN(lines[k]) =>
           After(lines, k).cpus[CpuN(lines[k]) + 1] = CpuNStats(lines[k])
    /\ \A j \in 1..Len(ScalarPrefixes) :
           LET data == strip_prefix(lines[k], ScalarPrefixes[j].prefix)
           IN  (data.some /\ parse_u64(data.rest).ok) =>
                   After(lines, k)
                       = [Before(lines, k) EXCEPT
                              ![ScalarPrefixes[j].field] = parse_u64(data.rest).val]
    /\ (~starts_with(lines[k], CPU_PREFIX) /\ ~IsScalar(lines[k])) =>
           /\ After(lines, k) = Before(lines, k)
           /\ ret.ps = ProcStat_parse(Without(lines, k))

\* C22, as stated: a line that starts with 'cpu' not followed by a digit
\* feeds the aggregate record with its tick fields; per-processor, scalar and
\* other lines are dispatched as above.
C22_LineDispatch ==
    ret # NoRet =>
        LET lines == split(arg.data, "\n")
        IN  \A k \in 1..Len(lines) :
                /\ (starts_with(lines[k], CPU_PREFIX)
                        /\ (Len(lines[k]) = 3 \/ ~IsDigit(lines[k][4]))
                        /\ ValidTicks(split_whitespace(SubSeq(lines[k], 4, Len(lines[k])))))
                       => After(lines, k)
                              = [Before(lines, k) EXCEPT
                                     !.cpu = CpuOf(split_whitespace(
                                                 SubSeq(lines[k], 4, Len(lines[k]))))]
                /\ DispatchRest(lines, k)

\* C22, amended: a line that starts with 'cpu' and two spaces feeds the
\* aggregate record; a line that starts with 'cpu' and is neither that nor
\* 'cpu<N> ..' with a number N changes nothing; per-processor, scalar and
\* other lines are dispatched as above.
C22_ExactDispatch ==
    ret # NoRet =>
        LET lines == split(arg.data, "\n")
        IN  \A k \in 1..Len(lines) :
                LET agg == strip_prefix(lines[k], CPU_PREFIX \o AGGREGATE_PREFIX)
                    id == split_once(SubSeq(lines[k], 4, Len(lines[k])), " ")
                IN  /\ (agg.some /\ ValidTicks(split(agg.rest, " ")))
                           => After(lines, k)
                                  = [Before(lines, k) EXCEPT
                                         !.cpu = CpuOf(split(agg.rest, " "))]
                    /\ (starts_with(lines[k], CPU_PREFIX) /\ ~agg.some
                            /\ ~(id.some /\ parse_u64(id.left).ok))
                           => After(lines, k) = Before(lines, k)
                    /\ DispatchRest(lines, k)

\* An aggregate line was followed by a line of another kind, and the result
\* holds the ticks of the aggregate line.
C22_Witness ==
    /\ ret # NoRet
    /\ arg.fn = "ProcStat::parse"
    /\ LET lines == split(arg.data, "\n")
       IN  /\ Len(lines) >= 3
           /\ lines[1] = CPU_PREFIX \o <<" ", " ">> \o join(Canon(4), <<" ">>)
           /\ ~starts_with(lines[2], CPU_PREFIX) /\ ~IsScalar(lines[2])
           /\ lines[2] # <<>>
    /\ ret.ps = [ProcStat_zero EXCEPT !.cpu = CpuOf(Canon(4))]

\* The CPU IDs that a text presents and parse_cpu_line accepts: 'cpu', then
\* a number up to MAX_NUM_CPUS, then a space.
AcceptedIds(data) ==
    LET lines == split(data, "\n")
    IN  {n \in 0..MAX_NUM_CPUS :
            \E k \in 1..Len(lines) :
                LET id == split_once(SubSeq(lines[k], 4, Len(lines[k])), " ")
                IN  /\ starts_with(lines[k], CPU_PREFIX)
                    /\ ~starts_with(lines[k], CPU_PREFIX \o AGGREGATE_PREFIX)
                    /\ id.some /\ parse_u64(id.left).ok /\ parse_u64(id.left).val = n}

\* C23: a per-processor line with an ID above MAX_NUM_CPUS does not grow the
\* vector; the vector has at most MAX_NUM_CPUS + 1 entries, 1 + the largest
\* accepted ID (none: 0), and the entries of IDs not accepted are zero.
C23_BoundedCpuArray ==
    ret # NoRet =>
        LET ids == AcceptedIds(arg.data)
            n == Len(ret.ps.cpus)
        IN  /\ n <= MAX_NUM_CPUS + 1
            /\ n = IF ids = {} THEN 0
                   ELSE 1 + (CHOOSE i \in ids : \A j \in ids : j <= i)
            /\ \A i \in 0..(n - 1) : i \notin ids => ret.ps.cpus[i + 1] = CpuStats_zero

\* A line with an ID above MAX_NUM_CPUS and a line for processor 2 were
\* parsed: the vector has 3 entries, the first two zero.
C23_Witness ==
    /\ ret # NoRet
    /\ arg.fn = "ProcStat::parse"
    /\ \E k \in 1..Len(split(arg.data, "\n")) :
           starts_with(split(arg.data, "\n")[k],
                       CPU_PREFIX \o ToDecimal(MAX_NUM_CPUS + 1) \o <<" ">>)
    /\ AcceptedIds(arg.data) = {2}
    /\ Len(ret.ps.cpus) = 3
    /\ ret.ps.cpus[1] = CpuStats_zero

\* --------------------------------------- /proc/net/dev without its header
\* The interface lines without the one whose number is too large and the one
\* without a colon.
NetLinesFew ==
    NetLines \ {ETH \o <<" ">> \o join([Canon(16) EXCEPT ![16] = ToDecimal(MaxU64 + 1)], <<" ">>),
                <<"l", "o", " ">> \o join(Canon(16), <<" ">>)}

InitNet ==
    /\ InitStats
    /\ arg \in [fn : {"NetDevStats::parse"},
                data : Texts(<<>>, NetLinesFew, MaxLines + 2)]
    /\ ret = NoRet

\* One call of NetDevStats::parse on a text whose first two lines may be
\* interface lines.
SpecNet == InitNet /\ [][CallNetDevStatsParse]_vars

\* The name of an interface line: what stands before the first colon, without
\* the whitespace that leads the line.
NetName(line) == split_once(trim_start(line), ":").left

\* The numbers after the colon of an interface line.
NetTokens(line) == split_whitespace(split_once(line, ":").right)

\* The places of the well-formed lines after the first two.
WellFormedLater(lines) ==
    {k \in 3..Len(lines) : lines[k] # <<>> /\ ~NetMalformed(lines[k])}

\* C24: the first two lines never produce an entry, whatever they hold; every
\* later line that is well-formed produces one, under its name; the number of
\* entries is the number of distinct names among those lines.
C24_HeaderSkipped ==
    (ret # NoRet /\ arg.fn = "NetDevStats::parse") =>
        LET lines == split(arg.data, "\n")
            names == {NetName(lines[k]) : k \in WellFormedLater(lines)}
        IN  /\ Names(ret.map) = names
            /\ Cardinality(ret.map) = Cardinality(names)

\* The first line was a complete line for lo, a later line a well-formed one
\* for eth0, and the map holds eth0 and not lo.
C24_Witness ==
    /\ ret # NoRet
    /\ arg.fn = "NetDevStats::parse"
    /\ LET lines == split(arg.data, "\n")
       IN  /\ ~NetMalformed(lines[1]) /\ NetName(lines[1]) = <<"l", "o">>
           /\ WellFormedLater(lines) # {}
    /\ Names(ret.map) = {<<"e", "t", "h", "0">>}

\* The entry that the last well-formed line for the name of line k put in the
\* map holds the first 16 numbers of that line in the order of the fields,
\* and 0 in the fields after them.
FieldsInOrder(lines, k, name) ==
    \E e \in ret.map :
        /\ e.name = name
        /\ \A i \in 1..Len(NetFields) :
               e.stats[NetFields[i]] = FieldOr0(NetTokens(lines[k]), i)
        /\ e.stats["rx_bytes"] = FieldOr0(NetTokens(lines[k]), 1)
        /\ e.stats["tx_bytes"] = FieldOr0(NetTokens(lines[k]), 9)
        /\ e.stats["tx_compressed"] = FieldOr0(NetTokens(lines[k]), 16)

\* The k-th line is the last well-formed line of its name.
LastOfName(lines, k) ==
    /\ k \in WellFormedLater(lines)
    /\ \A j \in WellFormedLater(lines) :
           NetName(lines[j]) = NetName(lines[k]) => j <= k

\* C25, as stated: the name of an interface line is the text before its
\* first colon, and its k <= 16 numbers fill the first k fields in the fixed
\* order, the other fields being 0.
C25_NameAndFields ==
    (ret # NoRet /\ arg.fn = "NetDevStats::parse") =>
        LET lines == split(arg.data, "\n")
        IN  \A k \in 1..Len(lines) :
                LastOfName(lines, k)
                    => FieldsInOrder(lines, k, split_once(lines[k], ":").left)

\* C25, amended: the name is the text before the first colon without the
\* whitespace that leads the line.
C25_TrimmedNameAndFields ==
    (ret # NoRet /\ arg.fn = "NetDevStats::parse") =>
        LET lines == split(arg.data, "\n")
        IN  \A k \in 1..Len(lines) :
                LastOfName(lines, k) => FieldsInOrder(lines, k, NetName(lines[k]))

\* A line '  lo: 1 2 .. 16' gave the entry lo, and a line 'eth0: 1 2 3' an
\* entry with three fields set and the others 0.
C25_Witness ==
    /\ ret # NoRet
    /\ arg.fn = "NetDevStats::parse"
    /\ \E e \in ret.map :
           /\ e.name = <<"l", "o">>
           /\ e.stats["rx_bytes"] = 1 /\ e.stats["tx_compressed"] = 16
    /\ \E e \in ret.map :
           /\ e.name = <<"e", "t", "h", "0">>
           /\ e.stats["rx_errs"] = 3 /\ e.stats["rx_drop"] = 0

\* ------------------------------------------------- collectors/meminfo.rs
\* str::strip_suffix(p): Some(rest) when s ends with p, else None.
strip_suffix(s, p) ==
    IF Len(s) >= Len(p) /\ SubSeq(s, Len(s) - Len(p) + 1, Len(s)) = p
    THEN [some |-> TRUE, rest |-> SubSeq(s, 1, Len(s) - Len(p))]
    ELSE [some |-> FALSE, rest |-> <<>>]

\* " kB".
KB_SUFFIX == <<" ", "k", "B">>

\* The try_parse_kb calls of MemoryStats::parse_line in their order: the key
\* and the field it sets.
MemKeys ==
    << [prefix |-> <<"M", "e", "m", "T", "o", "t", "a", "l", ":">>, field |-> "mem_total"],
       [prefix |-> <<"M", "e", "m", "F", "r", "e", "e", ":">>, field |-> "mem_free"],
       [prefix |-> <<"M", "e", "m", "A", "v", "a", "i", "l", "a", "b", "l", "e", ":">>, field |-> "mem_available"],
       [prefix |-> <<"B", "u", "f", "f", "e", "r", "s", ":">>, field |-> "buffers"],
       [prefix |-> <<"C", "a", "c", "h", "e", "d", ":">>, field |-> "cached"],
       [prefix |-> <<"S", "w", "a", "p", "C", "a", "c", "h", "e", "d", ":">>, field |-> "swap_cached"],
       [prefix |-> <<"A", "c", "t", "i", "v", "e", ":">>, field |-> "active"],
       [prefix |-> <<"I", "n", "a", "c", "t", "i", "v", "e", ":">>, field |-> "inactive"],
       [prefix |-> <<"U", "n", "e", "v", "i", "c", "t", "a", "b", "l", "e", ":">>, field |-> "unevictable"],
       [prefix |-> <<"M", "l", "o", "c", "k", "e", "d", ":">>, field |-> "mlocked"],
       [prefix |-> <<"H", "i", "g", "h", "T", "o", "t", "a", "l", ":">>, field |-> "high_total"],
       [prefix |-> <<"H", "i", "g", "h", "F", "r", "e", "e", ":">>, field |-> "high_free"],
       [prefix |-> <<"L", "o", "w", "T", "o", "t", "a", "l", ":">>, field |-> "low_total"],
       [prefix |-> <<"L", "o", "w", "F", "r", "e", "e", ":">>, field |-> "low_free"],
       [prefix |-> <<"S", "w", "a", "p", "T", "o", "t", "a", "l", ":">>, field |-> "swap_total"],
       [prefix |-> <<"S", "w", "a", "p", "F", "r", "e", "e", ":">>, field |-> "swap_free"],
       [prefix |-> <<"D", "i", "r", "t", "y", ":">>, field |-> "dirty"],
       [prefix |-> <<"W", "r", "i", "t", "e", "b", "a", "c", "k", ":">>, field |-> "writeback"],
       [prefix |-> <<"A", "n", "o", "n", "P", "a", "g", "e", "s", ":">>, field |-> "anon_pages"],
       [prefix |-> <<"M", "a", "p", "p", "e", "d", ":">>, field |-> "mapped"],
       [prefix |-> <<"S", "h", "m", "e", "m", ":">>, field |-> "shmem"],
       [prefix |-> <<"K", "R", "e", "c", "l", "a", "i", "m", "a", "b", "l", "e", ":">>, field |-> "kreclaimable"],
       [prefix |-> <<"S", "l", "a", "b", ":">>, field |-> "slab"],
       [prefix |-> <<"S", "R", "e", "c", "l", "a", "i", "m", "a", "b", "l", "e", ":">>, field |-> "sreclaimable"],
       [prefix |-> <<"S", "U", "n", "r", "e", "c", "l", "a", "i", "m", ":">>, field |-> "sunreclaimable"],
       [prefix |-> <<"K", "e", "r", "n", "e", "l", "S", "t", "a", "c", "k", ":">>, field |-> "kernel_stack"],
       [prefix |-> <<"P", "a", "g", "e", "T", "a", "b", "l", "e", "s", ":">>, field |-> "page_tables"],
       [prefix |-> <<"C", "o", "m", "m", "i", "t", "L", "i", "m", "i", "t", ":">>, field |-> "commit_limit"],
       [prefix |-> <<"C", "o", "m", "m", "i", "t", "t", "e", "d", "_", "A", "S", ":">>, field |-> "committed_as"],
       [prefix |-> <<"V", "m", "a", "l", "l", "o", "c", "T", "o", "t", "a", "l", ":">>, field |-> "vmalloc_total"],
       [prefix |-> <<"V", "m", "a", "l", "l", "o", "c", "U", "s", "e", "d", ":">>, field |-> "vmalloc_used"] >>

MemFieldNames == {MemKeys[k].field : k \in 1..Len(MemKeys)}

\* MemoryStats::default().
MemoryStats_zero == [f \in MemFieldNames |-> 0]

\* Ok(true), Ok(false) and Err of try_parse_kb, with the field afterwards.
KbOk(found, v) == [ok |-> TRUE, found |-> found, val |-> v, err |-> ""]

KbErr(v, e) == [ok |-> FALSE, found |-> FALSE, val |-> v, err |-> e]

\* try_parse_kb that reads a value without " kB" as a number.
try_parse_kb_lenient(line, prefix, field) ==
    LET data == strip_prefix(line, prefix)
        kb == strip_suffix(trim_start(data.rest), KB_SUFFIX)
        n == parse_u64(IF kb.some THEN kb.rest ELSE trim_start(data.rest))
    IN  IF ~data.some THEN KbOk(FALSE, field)
        ELSE IF n.ok THEN KbOk(TRUE, n.val)
        ELSE KbErr(field, "ParseIntError")

\* try_parse_kb(line, prefix, field): a line without the prefix is Ok(false);
\* with it, the value after trim_start() must end in " kB" and be a number.
try_parse_kb(line, prefix, field) ==
    LET data == strip_prefix(line, prefix)
        kb == strip_suffix(trim_start(data.rest), KB_SUFFIX)
        n == parse_u64(kb.rest)
    IN  IF ~data.some THEN KbOk(FALSE, field)
        ELSE IF ~kb.some THEN KbErr(field, "UnexpectedData")
        ELSE IF n.ok THEN KbOk(TRUE, n.val)
        ELSE KbErr(field, "ParseIntError")

\* Ok(()) and Err of MemoryStats::parse_line, with the MemoryStats afterwards.
MemOk(m) == [ok |-> TRUE, m |-> m, err |-> ""]

MemErr(m, e) == [ok |-> FALSE, m |-> m, err |-> e]

\* The chain `try_parse_kb(..)? || try_parse_kb(..)? || ..` of parse_line from
\* its k-th call on: it ends at the first Ok(true) and at the first Err.
RECURSIVE MemoryStats_parse_line_from(_, _, _)
MemoryStats_parse_line_from(m, line, k) ==
    IF k > Len(MemKeys) THEN MemOk(m)
    ELSE LET r == try_parse_kb(line, MemKeys[k].prefix, m[MemKeys[k].field])
         IN  IF ~r.ok THEN MemErr(m, r.err)
             ELSE IF r.found THEN MemOk([m EXCEPT ![MemKeys[k].field] = r.val])
             ELSE MemoryStats_parse_line_from(m, line, k + 1)

\* MemoryStats::parse_line(&mut self, line).
MemoryStats_parse_line(m, line) == MemoryStats_parse_line_from(m, line, 1)

\* The message that parse logs for the error e of line index.
MemLog(index, e) == [line |-> index, err |-> e]

\* The loop of a MemoryStats::parse that logs the error of every line.
RECURSIVE MemoryStats_parse_lines_noisy(_, _, _)
MemoryStats_parse_lines_noisy(lines, k, st) ==
    IF k > Len(lines) THEN st
    ELSE LET r == MemoryStats_parse_line(st.m, lines[k])
         IN  MemoryStats_parse_lines_noisy(lines, k + 1,
                 IF r.ok THEN [st EXCEPT !.m = r.m]
                 ELSE [m |-> r.m, once |-> TRUE,
                       log |-> Append(st.log, MemLog(k, r.err))])

\* The loop of MemoryStats::parse over the lines from the k-th on.  st holds
\* the MemoryStats, whether the static PARSE_ERROR_LOG (a Once) has run, and
\* what has been logged: the error of a line is logged by the first call_once
\* of the process and otherwise dropped.
RECURSIVE MemoryStats_parse_lines(_, _, _)
MemoryStats_parse_lines(lines, k, st) ==
    IF k > Len(lines) THEN st
    ELSE LET r == MemoryStats_parse_line(st.m, lines[k])
         IN  MemoryStats_parse_lines(lines, k + 1,
                 IF r.ok THEN [st EXCEPT !.m = r.m]
                 ELSE [m |-> r.m, once |-> TRUE,
                       log |-> IF st.once THEN st.log
                               ELSE Append(st.log, MemLog(k, r.err))])

\* The loop of a MemoryStats::parse that gives up at a line with an error
\* once PARSE_ERROR_LOG has run.
RECURSIVE MemoryStats_parse_lines_quiet(_, _, _)
MemoryStats_parse_lines_quiet(lines, k, st) ==
    IF k > Len(lines) THEN st
    ELSE LET r == MemoryStats_parse_line(st.m, lines[k])
         IN  IF r.ok
             THEN MemoryStats_parse_lines_quiet(lines, k + 1, [st EXCEPT !.m = r.m])
             ELSE IF st.once THEN st
             ELSE MemoryStats_parse_lines_quiet(lines, k + 1,
                      [m |-> r.m, once |-> TRUE,
                       log |-> Append(st.log, MemLog(k, r.err))])

MemoryStats_parse_quiet(data, once) ==
    MemoryStats_parse_lines_quiet(split(data, "\n"), 1,
                                  [m |-> MemoryStats_zero, once |-> once, log |-> <<>>])

\* MemoryStats::parse(data) in a process where PARSE_ERROR_LOG has run or not:
\* a default MemoryStats, then every line of data.split('\n').
MemoryStats_parse(data, once) ==
    MemoryStats_parse_lines(split(data, "\n"), 1,
                            [m |-> MemoryStats_zero, once |-> once, log |-> <<>>])

\* Lines of /proc/meminfo: keys with their value in kB, a key set twice,
\* values without " kB", a value that is no number, and keys of no field.
MemLines ==
    {<<"M", "e", "m", "T", "o", "t", "a", "l", ":", " ", " ", " ", " ", " ", " ", " ", "5", " ", "k", "B">>,
     <<"M", "e", "m", "T", "o", "t", "a", "l", ":", " ", "7", " ", "k", "B">>,
     <<"M", "e", "m", "F", "r", "e", "e", ":", " ", "6", " ", "k", "B">>,
     <<"M", "e", "m", "T", "o", "t", "a", "l", ":", " ", " ", " ", " ", " ", " ", " ", "5">>,
     <<"M", "e", "m", "F", "r", "e", "e", ":", " ", "6", " ", "K", "B">>,
     <<"M", "e", "m", "T", "o", "t", "a", "l", ":", " ", "x", " ", "k", "B">>,
     <<"A", "c", "t", "i", "v", "e", ":", " ", "4", " ", "k", "B">>,
     <<"A", "c", "t", "i", "v", "e", "(", "a", "n", "o", "n", ")", ":", " ", "3", " ", "k", "B">>,
     <<"H", "u", "g", "e", "P", "a", "g", "e", "s", "_", "T", "o", "t", "a", "l", ":", " ", " ", " ", " ", " ", " ", " ", "0">>,
     <<"V", "m", "a", "l", "l", "o", "c", "U", "s", "e", "d", ":", " ", "9", " ", "k", "B">>}

InitMem ==
    /\ InitStats
    /\ arg \in [fn : {"MemoryStats::parse"}, once : BOOLEAN,
                data : Texts(<<>>, MemLines, MaxLines)]
    /\ ret = NoRet

\* MemoryStats::parse(data) is called; it returns the MemoryStats.
CallMemoryStatsParse ==
    /\ ret = NoRet
    /\ ret' = MemoryStats_parse(arg.data, arg.once)
    /\ UNCHANGED <<clock, regVars, deltaVars, arg>>

\* One call of MemoryStats::parse.
SpecMem == InitMem /\ [][CallMemoryStatsParse]_vars

\* The line begins with one of the keys of MemKeys.
HasMemKey(line) == \E j \in 1..Len(MemKeys) : starts_with(line, MemKeys[j].prefix)

\* The MemoryStats after the first k lines of the text.
MemUpTo(lines, k) == MemoryStats_parse(UpTo(lines, k), FALSE).m

\* C26: a line with a recognized key and a value without " kB" is an
\* UnexpectedData error for that line only: no field changes, the other lines
\* are parsed as without it, and the parse returns a MemoryStats; a line with
\* an unrecognized key changes nothing.
C26_MissingKbSuffix ==
    ret # NoRet =>
        LET lines == split(arg.data, "\n")
        IN  \A k \in 1..Len(lines) :
                /\ (HasMemKey(lines[k]) /\ ~strip_suffix(lines[k], KB_SUFFIX).some) =>
                       /\ MemoryStats_parse_line(MemUpTo(lines, k - 1), lines[k]).err
                              = "UnexpectedData"
                       /\ MemUpTo(lines, k) = MemUpTo(lines, k - 1)
                       /\ ret.m = MemoryStats_parse(Without(lines, k), FALSE).m
                       /\ DOMAIN ret.m = MemFieldNames
                /\ ~HasMemKey(lines[k]) =>
                       /\ MemUpTo(lines, k) = MemUpTo(lines, k - 1)
                       /\ ret.m = MemoryStats_parse(Without(lines, k), FALSE).m

\* 'MemTotal:       5' was followed by 'MemFree: 6 kB': mem_total is still 0
\* and mem_free is 6.
C26_Witness ==
    /\ ret # NoRet
    /\ arg.fn = "MemoryStats::parse"
    /\ arg.data = <<"M", "e", "m", "T", "o", "t", "a", "l", ":", " ", " ", " ", " ", " ", " ", " ", "5">> \o <<"\n">> \o <<"M", "e", "m", "F", "r", "e", "e", ":", " ", "6", " ", "k", "B">> \o <<"\n">>
    /\ ret.m = [MemoryStats_zero EXCEPT !["mem_free"] = 6]

\* ------------------------------- widgets/net.rs, disk_io.rs, cpu.rs: update
\* The builds of the program: with the overflow checks of integer arithmetic
\* (the debug profile) and without them (the release profile).
Builds == {"debug", "release"}

\* The number of timer ticks followed after a widget is built.
MaxTicks == 4

\* BYTES_PER_SECTOR, scaled with the width of the counters.
BYTES_PER_SECTOR == 2

\* `a - b` on unsigned integers of maximum max: the difference when a >= b;
\* otherwise the overflow panic of a build with overflow checks, and the
\* difference modulo max + 1 of a build without them.
sub(a, b, max, build) ==
    IF a >= b THEN [panic |-> FALSE, val |-> a - b]
    ELSE IF build = "debug" THEN [panic |-> TRUE, val |-> 0]
    ELSE [panic |-> FALSE, val |-> (a - b) % (max + 1)]

\* `a + b` on unsigned integers of maximum max, in the same way.
add(a, b, max, build) ==
    IF a + b <= max THEN [panic |-> FALSE, val |-> a + b]
    ELSE IF build = "debug" THEN [panic |-> TRUE, val |-> 0]
    ELSE [panic |-> FALSE, val |-> (a + b) % (max + 1)]

\* `a * b` on unsigned integers of maximum max, in the same way.
mul(a, b, max, build) ==
    IF a * b <= max THEN [panic |-> FALSE, val |-> a * b]
    ELSE IF build = "debug" THEN [panic |-> TRUE, val |-> 0]
    ELSE [panic |-> FALSE, val |-> (a * b) % (max + 1)]

\* impl Sub for Ticks: Self(self.0 - other.0) on u64.
Ticks_sub(self, other, build) == sub(self, other, MaxU64, build)

\* impl Add for Ticks: Self(self.0 + other.0) on u64.
Ticks_add(self, other, build) == add(self, other, MaxU64, build)

\* impl Div for Ticks: the quotient of the two values as f64, kept as the
\* pair <<numerator, denominator>>.
Ticks_div(self, other) == <<self, other>>

\* HashMap::get(name) on a map held as the set of its entries.
get(m, name) ==
    IF \E e \in m : e.name = name
    THEN [some |-> TRUE, val |-> (CHOOSE e \in m : e.name = name).stats]
    ELSE [some |-> FALSE, val |-> <<>>]

\* StatsDelta::new() for a snapshot type whose new_zero() is zero: one
\* best-effort read into a zero snapshot, cloned into both generations.
StatsDelta_new_of(zero, now, r) ==
    LET s == IF r.ok THEN r.val ELSE zero
    IN  [a |-> s, b |-> s, a_newer |-> TRUE,
         timestamp |-> now, duration |-> 0]

\* What a call of update() did: the widget afterwards, the lines it logged,
\* how many counter subtractions it performed, and whether it panicked.
Updated(self, log, subs, panic) ==
    [self |-> self, log |-> log, subs |-> subs, panic |-> panic]

\* NetWidget::new(): dev_present starts true, the rates 0.
NetWidget_new(dev) ==
    [dev |-> dev, dev_present |-> TRUE, rx_Bps |-> <<0, 1>>, tx_Bps |-> <<0, 1>>]

\* NetWidget::update that subtracts whenever the newest snapshot has the
\* interface, taking the counters of an interface the older one lacks as 0.
NetWidget_update_new_only(self, sd, build) ==
    LET p == get_new_and_old(sd)
        new == get(p[1], self.dev)
        old == get(p[2], self.dev)
        o == IF old.some THEN old.val ELSE InterfaceStats_zero
    IN  IF new.some
        THEN LET rx == sub(new.val["rx_bytes"], o["rx_bytes"], MaxU64, build)
                 tx == sub(new.val["tx_bytes"], o["tx_bytes"], MaxU64, build)
             IN  IF rx.panic \/ tx.panic
                 THEN Updated([self EXCEPT !.dev_present = TRUE], <<>>,
                              IF rx.panic THEN 1 ELSE 2, TRUE)
                 ELSE Updated([self EXCEPT !.dev_present = TRUE,
                                           !.rx_Bps = <<rx.val, time_delta(sd)>>,
                                           !.tx_Bps = <<tx.val, time_delta(sd)>>],
                              <<>>, 2, FALSE)
        ELSE IF self.dev_present
        THEN Updated([self EXCEPT !.dev_present = FALSE],
                     <<"interface not present">>, 0, FALSE)
        ELSE Updated(self, <<>>, 0, FALSE)

\* NetWidget::update that warns on every tick without the interface.
NetWidget_update_warn_always(self, sd, build) ==
    LET p == get_new_and_old(sd)
        new == get(p[1], self.dev)
        old == get(p[2], self.dev)
    IN  IF new.some /\ old.some
        THEN LET rx == sub(new.val["rx_bytes"], old.val["rx_bytes"], MaxU64, build)
                 tx == sub(new.val["tx_bytes"], old.val["tx_bytes"], MaxU64, build)
             IN  IF rx.panic \/ tx.panic
                 THEN Updated([self EXCEPT !.dev_present = TRUE], <<>>,
                              IF rx.panic THEN 1 ELSE 2, TRUE)
                 ELSE Updated([self EXCEPT !.dev_present = TRUE,
                                           !.rx_Bps = <<rx.val, time_delta(sd)>>,
                                           !.tx_Bps = <<tx.val, time_delta(sd)>>],
                              <<>>, 2, FALSE)
        ELSE Updated([self EXCEPT !.dev_present = FALSE],
                     <<"interface not present">>, 0, FALSE)

\* NetWidget::update(&mut self): with the interface in both generations,
\* dev_present = true, then rx_bytes and tx_bytes are subtracted (a panic
\* leaves what was assigned before it) and divided by time_delta();
\* otherwise, when dev_present was true, one warning and dev_present = false;
\* otherwise nothing.
NetWidget_update(self, sd, build) ==
    LET p == get_new_and_old(sd)
        new == get(p[1], self.dev)
        old == get(p[2], self.dev)
    IN  IF new.some /\ old.some
        THEN LET rx == sub(new.val["rx_bytes"], old.val["rx_bytes"], MaxU64, build)
                 tx == sub(new.val["tx_bytes"], old.val["tx_bytes"], MaxU64, build)
             IN  IF rx.panic \/ tx.panic
                 THEN Updated([self EXCEPT !.dev_present = TRUE], <<>>,
                              IF rx.panic THEN 1 ELSE 2, TRUE)
                 ELSE Updated([self EXCEPT !.dev_present = TRUE,
                                           !.rx_Bps = <<rx.val, time_delta(sd)>>,
                                           !.tx_Bps = <<tx.val, time_delta(sd)>>],
                              <<>>, 2, FALSE)
        ELSE IF self.dev_present
        THEN Updated([self EXCEPT !.dev_present = FALSE],
                     <<"interface not present">>, 0, FALSE)
        ELSE Updated(self, <<>>, 0, FALSE)

\* DiskIoWidget::new(): disk_present starts true, the rates 0.  The field is
\* named dev here and dev_present for disk_present, as in NetWidget.
DiskIoWidget_new(disk) ==
    [dev |-> disk, dev_present |-> TRUE, busy_fraction |-> <<0, 1>>,
     read_Bps |-> <<0, 1>>, write_Bps |-> <<0, 1>>]

\* DiskIoWidget::update(&mut self): with the disk in both generations,
\* disk_present = true, ms_doing_io (u32) is subtracted and busy_fraction
\* set, "disk usage" is printed, the sectors read and written (u64) are
\* subtracted and multiplied by BYTES_PER_SECTOR, and the rates set;
\* otherwise, when disk_present was true, one "disk not present" line and
\* disk_present = false; otherwise nothing.
DiskIoWidget_update(self, sd, build) ==
    LET p == get_new_and_old(sd)
        new == get(p[1], self.dev)
        old == get(p[2], self.dev)
    IN  IF new.some /\ old.some
        THEN LET ms == sub(new.val["ms_doing_io"], old.val["ms_doing_io"], MaxU32, build)
                 rd == sub(new.val["num_sectors_read"], old.val["num_sectors_read"],
                           MaxU64, build)
                 wr == sub(new.val["num_sectors_written"], old.val["num_sectors_written"],
                           MaxU64, build)
                 rb == mul(rd.val, BYTES_PER_SECTOR, MaxU64, build)
                 wb == mul(wr.val, BYTES_PER_SECTOR, MaxU64, build)
                 s1 == [self EXCEPT !.dev_present = TRUE]
                 s2 == [s1 EXCEPT !.busy_fraction = <<ms.val, time_delta(sd)>>]
             IN  IF ms.panic THEN Updated(s1, <<>>, 1, TRUE)
                 ELSE IF rd.panic THEN Updated(s2, <<"disk usage">>, 2, TRUE)
                 ELSE IF wr.panic \/ rb.panic \/ wb.panic
                 THEN Updated(s2, <<"disk usage">>, 3, TRUE)
                 ELSE Updated([s2 EXCEPT !.read_Bps = <<rb.val, time_delta(sd)>>,
                                         !.write_Bps = <<wb.val, time_delta(sd)>>],
                              <<"disk usage">>, 3, FALSE)
        ELSE IF self.dev_present
        THEN Updated([self EXCEPT !.dev_present = FALSE],
                     <<"disk not present">>, 0, FALSE)
        ELSE Updated(self, <<>>, 0, FALSE)

\* CpuWidget::new(): usage_ratio starts 0.
CpuWidget_new == [usage_ratio |-> <<0, 1>>]

\* CpuWidget::update(&mut self): the Ticks of user, nice, system and idle are
\* subtracted, added up, and usage_ratio = total_used / total.
CpuWidget_update(self, sd, build) ==
    LET p == get_new_and_old(sd)
        new == p[1].cpu
        old == p[2].cpu
        user == Ticks_sub(new["user"], old["user"], build)
        nice == Ticks_sub(new["nice"], old["nice"], build)
        system == Ticks_sub(new["system"], old["system"], build)
        idle == Ticks_sub(new["idle"], old["idle"], build)
        us == Ticks_add(user.val, system.val, build)
        total_used == Ticks_add(us.val, nice.val, build)
        total == Ticks_add(total_used.val, idle.val, build)
    IN  IF user.panic THEN Updated(self, <<>>, 1, TRUE)
        ELSE IF nice.panic THEN Updated(self, <<>>, 2, TRUE)
        ELSE IF system.panic THEN Updated(self, <<>>, 3, TRUE)
        ELSE IF idle.panic \/ us.panic \/ total_used.panic \/ total.panic
        THEN Updated(self, <<>>, 4, TRUE)
        ELSE Updated([self EXCEPT !.usage_ratio = Ticks_div(total_used.val, total.val)],
                     <<>>, 4, FALSE)

\* The interface and the disk the widgets are configured with, and another.
ETH0 == <<"e", "t", "h", "0">>

LO0 == <<"l", "o">>

SDA0 == <<"s", "d", "a">>

SDB0 == <<"s", "d", "b">>

\* An InterfaceStats with the given rx_bytes and tx_bytes.
Iface(rx, tx) ==
    [InterfaceStats_zero EXCEPT !["rx_bytes"] = rx, !["tx_bytes"] = tx]

\* A DiskStats with the given ms_doing_io and sectors read and written.
Disk(ms, rd, wr) ==
    [DiskStats_zero EXCEPT !["ms_doing_io"] = ms, !["num_sectors_read"] = rd,
                           !["num_sectors_written"] = wr]

\* A ProcStat with the given user, nice, system and idle ticks of all CPUs.
Cpu(user, nice, system, idle) ==
    [ProcStat_zero EXCEPT !.cpu = [CpuStats_zero EXCEPT !["user"] = user,
                                                        !["nice"] = nice,
                                                        !["system"] = system,
                                                        !["idle"] = idle]]

\* What /proc/net/dev can parse to: no interface, only another interface,
\* the interface with small counters, and with larger ones.
NetSnaps ==
    {{},
     insert({}, LO0, Iface(0, 0)),
     insert({}, ETH0, Iface(1, 1)),
     insert(insert({}, LO0, Iface(0, 0)), ETH0, Iface(3, 2))}

\* What /proc/diskstats can parse to, in the same way.
DiskSnaps ==
    {{},
     insert({}, SDB0, Disk(0, 0, 0)),
     insert({}, SDA0, Disk(1, 1, 1)),
     insert(insert({}, SDB0, Disk(0, 0, 0)), SDA0, Disk(2, 3, 2))}

\* What /proc/stat can parse to: counters that grow and counters that fell.
CpuSnaps == {Cpu(1, 1, 1, 1), Cpu(3, 1, 2, 5), Cpu(2, 0, 1, 9)}

\* The update() functions under study.
WidgetFns == {"NetWidget::update", "DiskIoWidget::update", "CpuWidget::update"}

\* Per update(): the snapshots its store can read, new_zero() of the store,
\* the widget as built, and the function itself.
SnapsOf(fn) ==
    CASE fn = "NetWidget::update" -> NetSnaps
      [] fn = "DiskIoWidget::update" -> DiskSnaps
      [] fn = "CpuWidget::update" -> CpuSnaps

ZeroOf(fn) == IF fn = "CpuWidget::update" THEN ProcStat_zero ELSE {}

NewOf(fn) ==
    CASE fn = "NetWidget::update" -> NetWidget_new(ETH0)
      [] fn = "DiskIoWidget::update" -> DiskIoWidget_new(SDA0)
      [] fn = "CpuWidget::update" -> CpuWidget_new

\* The update() of the widget under study (Widget::update of its type).
update_of(fn, self, sd, build) ==
    CASE fn = "NetWidget::update" -> NetWidget_update(self, sd, build)
      [] fn = "DiskIoWidget::update" -> DiskIoWidget_update(self, sd, build)
      [] fn = "CpuWidget::update" -> CpuWidget_update(self, sd, build)

\* One read and parse of the kernel file of the store: Ok(snapshot) or Err.
WidgetReads(fn) == [ok : {TRUE}, val : SnapsOf(fn)] \cup {Err}

\* Before the widget is built: which widget, in which build.
InitWidget ==
    /\ InitStats
    /\ arg \in [fn : WidgetFns, build : Builds]
    /\ ret = NoRet

\* The widget is built: its get_* accessor builds the store with
\* StatsDelta::new(), whose read returned r, and new() builds the widget.
\* ret keeps the widget, the snapshots the store has taken in (new_zero() for
\* a failed initial read), and what each update() call did.
BuildWidget ==
    /\ ret = NoRet
    /\ \E r \in WidgetReads(arg.fn) :
           /\ delta' = StatsDelta_new_of(ZeroOf(arg.fn), clock, r)
           /\ ret' = [fn |-> arg.fn, self |-> NewOf(arg.fn),
                      good |-> <<IF r.ok THEN r.val ELSE ZeroOf(arg.fn)>>,
                      calls |-> <<>>]
    /\ UNCHANGED <<clock, regVars, last, okTimes, arg>>

\* The process has panicked in an update().
Panicked == ret # NoRet /\ \E k \in 1..Len(ret.calls) : ret.calls[k].panic

\* A timer tick (process_tick): the store is refreshed with a read that
\* returned r, failing or not, and then the widget's update() runs.
TickWidget ==
    /\ ret # NoRet
    /\ ~Panicked
    /\ Len(ret.calls) < MaxTicks
    /\ \E r \in WidgetReads(arg.fn) :
           LET u == StatsDelta_update(delta, clock + 1, r)
               w == update_of(arg.fn, ret.self, u.sd, arg.build)
               good == IF r.ok THEN Append(ret.good, r.val) ELSE ret.good
           IN  /\ clock' = clock + 1
               /\ delta' = u.sd
               /\ ret' = [ret EXCEPT !.self = w.self,
                                     !.good = good,
                                     !.calls = Append(@, [n |-> Len(good),
                                                          self |-> w.self,
                                                          log |-> w.log,
                                                          subs |-> w.subs,
                                                          panic |-> w.panic])]
    /\ UNCHANGED <<regVars, last, okTimes, arg>>

NextWidget == BuildWidget \/ TickWidget

\* A widget, its store, and the ticks after it is built.
SpecWidget == InitWidget /\ [][NextWidget]_vars

\* The newest and the older snapshot of the store at the k-th update(): the
\* latest two it has taken in (the initial one twice before a second).
Newest(k) == ret.good[ret.calls[k].n]

Older(k) == ret.good[IF ret.calls[k].n > 1 THEN ret.calls[k].n - 1 ELSE 1]

\* The configured name is in the newest, and in the older, snapshot.
InNewest(k) == ret.self.dev \in Names(Newest(k))

InOlder(k) == ret.self.dev \in Names(Older(k))

\* The history is that of a disk or network widget.
NamedWidget == ret # NoRet /\ arg.fn # "CpuWidget::update"

\* C27: when the configured name is in only one of the newest and the older
\* snapshot, update() subtracts no counter, does not panic and leaves the
\* widget 'not present'; when it is in both, the widget is 'present'.
C27_MissingDevice ==
    NamedWidget =>
        \A k \in 1..Len(ret.calls) :
            LET c == ret.calls[k]
            IN  /\ (InNewest(k) # InOlder(k)) =>
                       c.subs = 0 /\ ~c.panic /\ ~c.self.dev_present
                /\ (InNewest(k) /\ InOlder(k)) => c.self.dev_present

\* The interface was in both snapshots at one update() and only in the older
\* one at the next, which left the widget 'not present'.
C27_Witness ==
    /\ NamedWidget
    /\ Len(ret.calls) >= 2
    /\ InNewest(1) /\ InOlder(1) /\ ret.calls[1].self.dev_present
    /\ ~InNewest(2) /\ InOlder(2)
    /\ ret.calls[2].subs = 0 /\ ~ret.calls[2].panic
    /\ ~ret.calls[2].self.dev_present

\* The lines with which the widgets report the transition to 'not present'.
NotPresentLines == {"interface not present", "disk not present"}

\* How many such lines the k-th update() logged.
NotPresentLogged(k) ==
    Cardinality({i \in 1..Len(ret.calls[k].log) :
                     ret.calls[k].log[i] \in NotPresentLines})

\* The device is missing at the k-th update(): the configured name is not in
\* both of the snapshots the update() compares.
Missing(k) == ~(InNewest(k) /\ InOlder(k))

\* C28: over the ticks after a disk or network widget is built, an update()
\* logs the transition to 'not present' exactly once when the device is
\* missing at that tick and was not missing at the tick before (or the tick is
\* the first after the widget was built), and not at all otherwise: one
\* message per maximal run of ticks without the device.
C28_LoggedOncePerRun ==
    NamedWidget =>
        \A k \in 1..Len(ret.calls) :
            NotPresentLogged(k) =
                IF Missing(k) /\ (k = 1 \/ ~Missing(k - 1)) THEN 1 ELSE 0

\* The device was missing at the first two ticks after the widget was built,
\* present at the third and missing again at the fourth: the first and the
\* fourth update() logged the transition, the second and third logged none.
C28_Witness ==
    /\ NamedWidget
    /\ Len(ret.calls) = 4
    /\ Missing(1) /\ Missing(2) /\ ~Missing(3) /\ Missing(4)
    /\ NotPresentLogged(1) = 1 /\ NotPresentLogged(2) = 0
    /\ NotPresentLogged(3) = 0 /\ NotPresentLogged(4) = 1

\* x reduced to the width of u64, and of u32.
Wrap64(x) == x % (MaxU64 + 1)

Wrap32(x) == x % (MaxU32 + 1)

\* The counters of the configured device in the newest and the older snapshot
\* at the k-th update().
NewestOf(k) == get(Newest(k), ret.self.dev).val

OlderOf(k) == get(Older(k), ret.self.dev).val

\* The difference newest - older of Ticks field f at the k-th update(),
\* reduced to the width of u64.
TicksDelta(k, f) == Wrap64(Newest(k).cpu[f] - Older(k).cpu[f])

\* C29: every counter delta a widget computes is the wraparound-safe
\* difference of the field's width: no update() panics, and the network
\* widget's byte deltas, the disk widget's busy milliseconds and the CPU
\* widget's tick sums are those of (newest - older) mod 2^w.
C29_WrapSafeDeltas ==
    ret # NoRet =>
        \A k \in 1..Len(ret.calls) :
            LET c == ret.calls[k]
            IN  /\ ~c.panic
                /\ (arg.fn = "NetWidget::update" /\ InNewest(k) /\ InOlder(k)) =>
                       /\ c.self.rx_Bps[1]
                              = Wrap64(NewestOf(k)["rx_bytes"] - OlderOf(k)["rx_bytes"])
                       /\ c.self.tx_Bps[1]
                              = Wrap64(NewestOf(k)["tx_bytes"] - OlderOf(k)["tx_bytes"])
                /\ (arg.fn = "DiskIoWidget::update" /\ InNewest(k) /\ InOlder(k)) =>
                       c.self.busy_fraction[1]
                           = Wrap32(NewestOf(k)["ms_doing_io"] - OlderOf(k)["ms_doing_io"])
                /\ arg.fn = "CpuWidget::update" =>
                       LET used == Wrap64(Wrap64(TicksDelta(k, "user")
                                                     + TicksDelta(k, "system"))
                                              + TicksDelta(k, "nice"))
                       IN  c.self.usage_ratio
                               = <<used, Wrap64(used + TicksDelta(k, "idle"))>>

\* ------------------------------------------- the five parsers, called in turn
\* The number of parses followed in one process.
MaxCalls == 3

\* The parsers of the kernel files.
ParserFns ==
    {"ProcStat::parse", "ProcDiskStats::parse", "NetDevStats::parse",
     "MemoryStats::parse", "parse_pressure_data"}

\* Two texts per parser: one in which every line is well-formed and one with
\* a line the parser rejects (two such lines for /proc/meminfo).
ParserTexts(fn) ==
    CASE fn = "ProcStat::parse" ->
             {<<"c", "p", "u", " ", " ", "1", " ", "2", " ", "3", " ", "4", "\n", "c", "p", "u", "1", " ", "5", " ", "6", " ", "7", " ", "8", "\n", "c", "t", "x", "t", " ", "9", "\n">>,
              <<"c", "p", "u", "0", " ", "1", " ", "x", "\n", "b", "t", "i", "m", "e", " ", "3", "\n">>}
      [] fn = "ProcDiskStats::parse" ->
             {Dev(SDA) \o join(Canon(17), <<" ">>) \o <<"\n">>,
              Dev(SDA) \o join(Canon(3), <<" ">>) \o <<"\n">>
                  \o Dev(SDB) \o join(Canon(17), <<" ">>) \o <<"\n">>}
      [] fn = "NetDevStats::parse" ->
             {NetHeader \o ETH \o <<" ">> \o join(Canon(16), <<" ">>) \o <<"\n">>,
              NetHeader \o LO \o <<" ", "x", "\n">>
                  \o ETH \o <<" ">> \o join(Canon(3), <<" ">>) \o <<"\n">>}
      [] fn = "MemoryStats::parse" ->
             {<<"M", "e", "m", "T", "o", "t", "a", "l", ":", " ", "7", " ", "k", "B", "\n", "M", "e", "m", "F", "r", "e", "e", ":", " ", "6", " ", "k", "B", "\n">>,
              <<"M", "e", "m", "T", "o", "t", "a", "l", ":", " ", "5", "\n", "M", "e", "m", "F", "r", "e", "e", ":", " ", "6", " ", "k", "B", "\n", "A", "c", "t", "i", "v", "e", ":", " ", "x", " ", "k", "B", "\n">>}
      [] fn = "parse_pressure_data" ->
             {<<"s", "o", "m", "e", " ", "t", "o", "t", "a", "l", "=", "5", "\n", "f", "u", "l", "l", " ", "t", "o", "t", "a", "l", "=", "7", "\n">>,
              <<"s", "o", "m", "e", " ", "a", "v", "g", "1", "0", "=", "0", ".", "0", "0", "\n", "f", "u", "l", "l", " ", "t", "o", "t", "a", "l", "=", "7", "\n">>}

\* The process starts: no parser has run, PARSE_ERROR_LOG has not run.
InitParsers ==
    /\ InitStats
    /\ arg = [fn |-> "parse"]
    /\ ret = [fn |-> "parse", once |-> FALSE, calls |-> <<>>]

\* What a call of a parser leaves: its text, its result, what it logged.
Parsed(fn, data, out, log) == [fn |-> fn, data |-> data, out |-> out, log |-> log]

\* ProcStat::parse(data) is called.
ParseProcStat ==
    /\ Len(ret.calls) < MaxCalls
    /\ \E data \in ParserTexts("ProcStat::parse") :
           ret' = [ret EXCEPT !.calls =
                       Append(@, Parsed("ProcStat::parse", data,
                                        ProcStat_parse(data), <<>>))]
    /\ UNCHANGED <<clock, regVars, deltaVars, arg>>

\* ProcDiskStats::parse(data) is called.
ParseProcDiskStats ==
    /\ Len(ret.calls) < MaxCalls
    /\ \E data \in ParserTexts("ProcDiskStats::parse") :
           ret' = [ret EXCEPT !.calls =
                       Append(@, Parsed("ProcDiskStats::parse", data,
                                        ProcDiskStats_parse(data), <<>>))]
    /\ UNCHANGED <<clock, regVars, deltaVars, arg>>

\* NetDevStats::parse(data) is called.
ParseNetDevStats ==
    /\ Len(ret.calls) < MaxCalls
    /\ \E data \in ParserTexts("NetDevStats::parse") :
           ret' = [ret EXCEPT !.calls =
                       Append(@, Parsed("NetDevStats::parse", data,
                                        NetDevStats_parse(data), <<>>))]
    /\ UNCHANGED <<clock, regVars, deltaVars, arg>>

\* MemoryStats::parse(data) is called: it reads and sets PARSE_ERROR_LOG.
ParseMemoryStats ==
    /\ Len(ret.calls) < MaxCalls
    /\ \E data \in ParserTexts("MemoryStats::parse") :
           LET r == MemoryStats_parse(data, ret.once)
           IN  ret' = [ret EXCEPT !.once = r.once,
                                  !.calls = Append(@, Parsed("MemoryStats::parse",
                                                             data, r.m, r.log))]
    /\ UNCHANGED <<clock, regVars, deltaVars, arg>>

\* parse_pressure_data(data) is called.
ParsePressure ==
    /\ Len(ret.calls) < MaxCalls
    /\ \E data \in ParserTexts("parse_pressure_data") :
           ret' = [ret EXCEPT !.calls =
                       Append(@, Parsed("parse_pressure_data", data,
                                        parse_pressure_data(data), <<>>))]
    /\ UNCHANGED <<clock, regVars, deltaVars, arg>>

NextParsers ==
    \/ ParseProcStat
    \/ ParseProcDiskStats
    \/ ParseNetDevStats
    \/ ParseMemoryStats
    \/ ParsePressure

\* The parses of one process, in any order.
SpecParsers == InitParsers /\ [][NextParsers]_vars

\* C30: two calls of the same parser on the same text in one process, with
\* any parses in between, return equal results: equal snapshots, and for the
\* pressure parser the same pair or the same error.
C30_ParseDeterministic ==
    arg.fn = "parse" =>
        \A i, j \in 1..Len(ret.calls) :
            (ret.calls[i].fn = ret.calls[j].fn /\ ret.calls[i].data = ret.calls[j].data)
                => ret.calls[i].out = ret.calls[j].out

\* MemoryStats::parse met a line with an error and logged it, another parser
\* ran, and MemoryStats::parse of the same text logged nothing and returned
\* the same MemoryStats, with mem_free = 6.
C30_Witness ==
    /\ arg.fn = "parse"
    /\ Len(ret.calls) = 3
    /\ ret.calls[1].fn = "MemoryStats::parse"
    /\ ret.calls[2].fn = "parse_pressure_data"
    /\ ret.calls[3].fn = "MemoryStats::parse"
    /\ ret.calls[1].data = ret.calls[3].data
    /\ ret.calls[1].log # <<>>
    /\ ret.calls[3].log = <<>>
    /\ ret.calls[1].out = ret.calls[3].out
    /\ ret.calls[3].out["mem_free"] = 6

\* The parsers that go on after a line with an error.
TolerantFns == ParserFns \ {"parse_pressure_data"}

\* The parse-error messages of source fn over the calls so far.
ParseErrorLogs(fn) ==
    UNION {{<<i, j>> : j \in 1..Len(ret.calls[i].log)} :
               i \in {k \in 1..Len(ret.calls) : ret.calls[k].fn = fn}}

\* The result out of parser fn is a snapshot of its type.
IsSnapshot(fn, out) ==
    CASE fn = "ProcStat::parse" ->
             DOMAIN out = DOMAIN ProcStat_zero /\ DOMAIN out.cpu = CpuFieldNames
      [] fn = "ProcDiskStats::parse" ->
             \A e \in out : DOMAIN e.stats = DiskFieldNames
      [] fn = "NetDevStats::parse" ->
             \A e \in out : DOMAIN e.stats = DOMAIN InterfaceStats_zero
      [] fn = "MemoryStats::parse" -> DOMAIN out = MemFieldNames

\* C31: over the parses of one process, whatever the number of lines with an
\* error, each tolerant parser has logged at most one parse-error message in
\* total, and every one of its calls returned a snapshot.
C31_LoggedOncePerSource ==
    arg.fn = "parse" =>
        /\ \A fn \in TolerantFns : Cardinality(ParseErrorLogs(fn)) <= 1
        /\ \A i \in 1..Len(ret.calls) :
               ret.calls[i].fn \in TolerantFns
                   => IsSnapshot(ret.calls[i].fn, ret.calls[i].out)

\* MemoryStats::parse ran three times on the text with two bad lines: the
\* first call logged the error of line 1 and the later calls nothing, and
\* the third still returned mem_free = 6.
C31_Witness ==
    /\ arg.fn = "parse"
    /\ Len(ret.calls) = 3
    /\ \A i \in 1..3 :
           /\ ret.calls[i].fn = "MemoryStats::parse"
           /\ ret.calls[i].data = ret.calls[1].data
    /\ ret.calls[1].log = <<MemLog(1, "UnexpectedData")>>
    /\ ret.calls[2].log = <<>> /\ ret.calls[3].log = <<>>
    /\ ~MemoryStats_parse_line(MemoryStats_zero, split(ret.calls[1].data, "\n")[3]).ok
    /\ ret.calls[3].out["mem_free"] = 6

\* ------------------------------------------------ waymon.rs: monitors, bars
\* The monitors the display can report.
Monitors == {"m1", "m2"}

\* MONITOR_METADATA_TIMEOUT, in ticks of the model's clock.
MONITOR_METADATA_TIMEOUT == 2

\* The instants followed.
MaxClock == 4

\* PRIMARY_BAR_NAME and NO_BAR_NAME; a rule without `bar`.
PRIMARY_BAR_NAME == "primary"

NO_BAR_NAME == "none"

NoBarName == "(no bar key)"

\* Config.mode.
Modes == {"Mirror", "Primary", "PerMonitor"}

\* MonitorState: Pending(PendingMonitor), NoBar, Bar(Bar).
Pending(first_seen) == [kind |-> "Pending", first_seen |-> first_seen, config |-> ""]

NoBar == [kind |-> "NoBar", first_seen |-> 0, config |-> ""]

Bar(config) == [kind |-> "Bar", first_seen |-> 0, config |-> config]

\* Option<&BarConfig> None, and pick_primary_monitor's None.
NoConfig == ""

NoMonitor == ""

\* The connector, manufacturer and model of monitor m as the rules see them:
\* the empty string for each while the metadata is not there (map_or("", ..)),
\* and afterwards text that names the monitor.
Metadata(m, meta) == IF m \in meta THEN m ELSE ""

\* Waymon::is_all_monitor_metadata_present(mon).
is_all_monitor_metadata_present(m, meta) == m \in meta

\* Waymon::is_rule_match(rule, mon): the three regexes of the rule, taken as
\* the set of metadata they match.
is_rule_match(rule, m, meta) == Metadata(m, meta) \in rule.matches

\* PendingMonitor::is_timed_out(now): now > first_seen + timeout.
is_timed_out(pm, now) == now > pm.first_seen + MONITOR_METADATA_TIMEOUT

\* HashMap::insert on the monitors map, a function on its keys.
map_insert(monitors, m, st) ==
    [k \in DOMAIN monitors \cup {m} |-> IF k = m THEN st ELSE monitors[k]]

\* ensure_bar_config that builds a bar whatever the state of the monitor.
ensure_bar_config_eager(mon_state, config) ==
    IF config # NoConfig THEN [st |-> Bar(config), log |-> <<>>]
    ELSE [st |-> NoBar, log |-> <<>>]

\* Waymon::ensure_bar_config(mon, mon_state, config): Pending logs an error
\* and stays; a Bar stays with a config (Bar::ensure_config does nothing) and
\* becomes NoBar without; NoBar gets a new Bar with a config.  Returns the
\* state and what was logged.
ensure_bar_config(mon_state, config) ==
    CASE mon_state.kind = "Pending" ->
             [st |-> mon_state,
              log |-> <<"attempted to configure bar on pending monitor">>]
      [] mon_state.kind = "Bar" ->
             [st |-> IF config # NoConfig THEN mon_state ELSE NoBar, log |-> <<>>]
      [] mon_state.kind = "NoBar" ->
             [st |-> IF config # NoConfig THEN Bar(config) ELSE NoBar, log |-> <<>>]

\* Waymon::configure_monitors_mirrored(): ensure_bar_config with the primary
\* bar config on every entry of the map.
configure_monitors_mirrored(monitors) ==
    [m \in DOMAIN monitors |-> ensure_bar_config(monitors[m], PRIMARY_BAR_NAME).st]

\* The loops of pick_primary_monitor over the rules from the r-th on and, in
\* each, over the keys from the i-th on in the iteration order of the map:
\* a matching rule named "none" excludes the monitor, a matching rule with
\* another bar name returns it.
RECURSIVE pick_by_rules(_, _, _, _, _, _)
pick_by_rules(order, meta, rules, r, i, excluded) ==
    IF r > Len(rules) THEN [found |-> NoMonitor, excluded |-> excluded]
    ELSE IF i > Len(order) THEN pick_by_rules(order, meta, rules, r + 1, 1, excluded)
    ELSE LET mon == order[i]
             rule == rules[r]
         IN  IF mon \in excluded \/ ~is_rule_match(rule, mon, meta)
                    \/ rule.bar = NoBarName
             THEN pick_by_rules(order, meta, rules, r, i + 1, excluded)
             ELSE IF rule.bar = NO_BAR_NAME
             THEN pick_by_rules(order, meta, rules, r, i + 1, excluded \cup {mon})
             ELSE [found |-> mon, excluded |-> excluded]

\* The last loop of pick_primary_monitor over the keys from the i-th on: the
\* first monitor not excluded that has a Bar, else the first not excluded.
RECURSIVE pick_fallback(_, _, _, _, _)
pick_fallback(monitors, order, i, excluded, preferred) ==
    IF i > Len(order) THEN preferred
    ELSE LET mon == order[i]
         IN  IF mon \in excluded
             THEN pick_fallback(monitors, order, i + 1, excluded, preferred)
             ELSE IF monitors[mon].kind = "Bar" THEN mon
             ELSE pick_fallback(monitors, order, i + 1, excluded,
                                IF preferred = NoMonitor THEN mon ELSE preferred)

\* pick_primary_monitor that passes over the monitors that are Pending.
pick_primary_monitor_ready(monitors, meta, rules, order) ==
    LET ready == SelectSeq(order, LAMBDA m : monitors[m].kind # "Pending")
        p == pick_by_rules(ready, meta, rules, 1, 1, {})
    IN  IF p.found # NoMonitor THEN p.found
        ELSE pick_fallback(monitors, ready, 1, p.excluded, NoMonitor)

\* Waymon::pick_primary_monitor(), the keys of the map being iterated in
\* the order `order`.
pick_primary_monitor(monitors, meta, rules, order) ==
    LET p == pick_by_rules(order, meta, rules, 1, 1, {})
    IN  IF p.found # NoMonitor THEN p.found
        ELSE pick_fallback(monitors, order, 1, p.excluded, NoMonitor)

\* Waymon::configure_monitors_primary(): the primary bar config for the
\* monitor picked, no config for the others.
configure_monitors_primary(monitors, meta, rules, order) ==
    LET primary_mon == pick_primary_monitor(monitors, meta, rules, order)
    IN  [m \in DOMAIN monitors |->
             ensure_bar_config(monitors[m],
                               IF m = primary_mon THEN PRIMARY_BAR_NAME
                               ELSE NoConfig).st]

\* Waymon::pick_monitor_config(mon, config): the bar of the first rule that
\* matches (none for "none", the primary bar for a rule without `bar`), the
\* primary bar when no rule matches.
RECURSIVE pick_monitor_config(_, _, _, _)
pick_monitor_config(m, meta, rules, r) ==
    IF r > Len(rules) THEN PRIMARY_BAR_NAME
    ELSE IF ~is_rule_match(rules[r], m, meta)
    THEN pick_monitor_config(m, meta, rules, r + 1)
    ELSE IF rules[r].bar = NO_BAR_NAME THEN NoConfig
    ELSE IF rules[r].bar = NoBarName THEN PRIMARY_BAR_NAME
    ELSE rules[r].bar

\* Waymon::configure_monitors_per_monitor(): Pending entries are skipped.
configure_monitors_per_monitor(monitors, meta, rules) ==
    [m \in DOMAIN monitors |->
         IF monitors[m].kind = "Pending" THEN monitors[m]
         ELSE ensure_bar_config(monitors[m],
                                pick_monitor_config(m, meta, rules, 1)).st]

\* Waymon::configure_monitor_bars(): by config.mode.
configure_monitor_bars(mode, monitors, meta, rules, order) ==
    CASE mode = "Mirror" -> configure_monitors_mirrored(monitors)
      [] mode = "Primary" -> configure_monitors_primary(monitors, meta, rules, order)
      [] mode = "PerMonitor" -> configure_monitors_per_monitor(monitors, meta, rules)

\* The orders in which a HashMap with the keys S can be iterated.
Orders(S) ==
    {f \in [1..Cardinality(S) -> S] : \A i, j \in DOMAIN f : f[i] = f[j] => i = j}

\* What a handler leaves: the map of monitors, and whether it called
\* configure_monitor_bars.
Handled(monitors, configured) == [monitors |-> monitors, configured |-> configured]

\* Waymon::process_monitor_change(monitors) at `now`, the display listing
\* the monitors `listed`: entries of monitors no longer listed are dropped;
\* a new monitor is inserted as NoBar when its metadata is there and as
\* Pending otherwise; the bars are configured when an entry was dropped or a
\* NoBar entry inserted.
process_monitor_change(mode, monitors, listed, meta, rules, now, order) ==
    LET kept == DOMAIN monitors \cap listed
        after == [m \in listed |->
                      IF m \in kept THEN monitors[m]
                      ELSE IF is_all_monitor_metadata_present(m, meta) THEN NoBar
                      ELSE Pending(now)]
        changes_made == \/ kept # DOMAIN monitors
                        \/ \E m \in listed \ kept :
                               is_all_monitor_metadata_present(m, meta)
    IN  IF changes_made
        THEN Handled(configure_monitor_bars(mode, after, meta, rules, order), TRUE)
        ELSE Handled(after, FALSE)

\* Waymon::monitor_metadata_ready(mon): a Pending entry, or no entry, becomes
\* NoBar; then the bars are configured.
monitor_metadata_ready(mode, monitors, m, meta, rules, order) ==
    LET after == IF m \in DOMAIN monitors
                 THEN IF monitors[m].kind = "Pending"
                      THEN map_insert(monitors, m, NoBar)
                      ELSE monitors
                 ELSE map_insert(monitors, m, NoBar)
    IN  Handled(configure_monitor_bars(mode, after, meta, rules, order), TRUE)

\* The monitor part of process_tick with a timeout that is not strict.
process_tick_monitors_early(mode, monitors, meta, rules, now, order) ==
    LET after == [m \in DOMAIN monitors |->
                      IF /\ monitors[m].kind = "Pending"
                         /\ now >= monitors[m].first_seen + MONITOR_METADATA_TIMEOUT
                      THEN NoBar ELSE monitors[m]]
    IN  IF after # monitors
        THEN Handled(configure_monitor_bars(mode, after, meta, rules, order), TRUE)
        ELSE Handled(monitors, FALSE)

\* The monitor part of Waymon::process_tick() at `now`: every Pending entry
\* that is timed out becomes NoBar, and the bars are configured when one did.
process_tick_monitors(mode, monitors, meta, rules, now, order) ==
    LET after == [m \in DOMAIN monitors |->
                      IF /\ monitors[m].kind = "Pending"
                         /\ is_timed_out(monitors[m], now)
                      THEN NoBar ELSE monitors[m]]
        monitors_changed == after # monitors
    IN  IF monitors_changed
        THEN Handled(configure_monitor_bars(mode, after, meta, rules, order), TRUE)
        ELSE Handled(monitors, FALSE)

\* What the regexes of a rule can match: nothing yet known, or a monitor.
AllMetadata == {""} \cup Monitors

MonitorRule(matches, bar) == [matches |-> matches, bar |-> bar]

\* Config.monitor_rules: none, the default regexes with the primary bar, with
\* "none" and without `bar`, rules for one monitor, and two rules.
RuleLists ==
    {<<>>,
     <<MonitorRule(AllMetadata, PRIMARY_BAR_NAME)>>,
     <<MonitorRule(AllMetadata, NO_BAR_NAME)>>,
     <<MonitorRule(AllMetadata, NoBarName)>>,
     <<MonitorRule({"m1"}, NO_BAR_NAME)>>,
     <<MonitorRule({"m2"}, PRIMARY_BAR_NAME)>>,
     <<MonitorRule({"m1"}, NO_BAR_NAME), MonitorRule(AllMetadata, PRIMARY_BAR_NAME)>>}

\* Waymon::new(): the config is loaded and the map of monitors is empty.
InitMonitors ==
    /\ InitStats
    /\ arg \in [fn : {"monitors"}, mode : Modes, rules : RuleLists]
    /\ ret = [fn |-> "monitors", monitors |-> <<>>, listed |-> {}, meta |-> {},
              last |-> [ev |-> "new", mons |-> {}, now |-> 0, configured |-> FALSE]]

\* The display's list of monitors changes to L (at start, the first list),
\* the new monitors in M with their metadata, and process_monitor_change runs.
MonitorsChanged ==
    \E L \in (SUBSET Monitors) \ {ret.listed} :
        \E M \in SUBSET (L \ ret.listed) :
            LET meta == (ret.meta \cap L) \cup M
            IN  \E order \in Orders(L) :
                    LET h == process_monitor_change(arg.mode, ret.monitors, L, meta,
                                                    arg.rules, clock, order)
                    IN
                    /\ ret' = [ret EXCEPT
                                   !.listed = L,
                                   !.meta = meta,
                                   !.monitors = h.monitors,
                                   !.last = [ev |-> "change", mons |-> L, now |-> clock,
                                             configured |-> h.configured]]
                    /\ UNCHANGED <<clock, regVars, deltaVars, arg>>

\* The metadata of listed monitor m becomes complete; the notify handler of a
\* Pending entry then calls monitor_metadata_ready.
MetadataNotify(m) ==
    /\ m \in ret.listed
    /\ m \notin ret.meta
    /\ LET meta == ret.meta \cup {m}
       IN  \E order \in Orders(DOMAIN ret.monitors) :
               LET h == IF ret.monitors[m].kind = "Pending"
                        THEN monitor_metadata_ready(arg.mode, ret.monitors, m,
                                                    meta, arg.rules, order)
                        ELSE Handled(ret.monitors, FALSE)
               IN  ret' = [ret EXCEPT
                               !.meta = meta,
                               !.monitors = h.monitors,
                               !.last = [ev |-> "notify", mons |-> {m}, now |-> clock,
                                         configured |-> h.configured]]
    /\ UNCHANGED <<clock, regVars, deltaVars, arg>>

\* A timer tick: process_tick at the next instant.
TickMonitors ==
    /\ clock < MaxClock
    /\ clock' = clock + 1
    /\ \E order \in Orders(DOMAIN ret.monitors) :
           LET h == process_tick_monitors(arg.mode, ret.monitors, ret.meta,
                                          arg.rules, clock + 1, order)
           IN  ret' = [ret EXCEPT
                           !.monitors = h.monitors,
                           !.last = [ev |-> "tick", mons |-> {}, now |-> clock + 1,
                                     configured |-> h.configured]]
    /\ UNCHANGED <<regVars, deltaVars, arg>>

NextMonitors ==
    \/ MonitorsChanged
    \/ \E m \in Monitors : MetadataNotify(m)
    \/ TickMonitors

\* The monitors of a display, their metadata, and the timer.
SpecMonitors == InitMonitors /\ [][NextMonitors]_vars

\* The latest handler of the monitors ran configure_monitor_bars in mode.
Configured(mode) ==
    arg.fn = "monitors" /\ arg.mode = mode /\ ret.last.configured

\* The tracked monitors in state kind.
InState(kind) == {m \in DOMAIN ret.monitors : ret.monitors[m].kind = kind}

StaysPending(m) ==
    /\ m \in InState("Pending")
    /\ m \in DOMAIN ret'.monitors
    /\ m \notin ret'.meta
    /\ ~is_timed_out(ret.monitors[m], ret'.last.now)

LeavePending ==
    {m \in InState("Pending") \cap DOMAIN ret'.monitors :
         ret'.monitors[m] # ret.monitors[m]}

\* The map of the monitors after the step, had the monitors leaving Pending
\* become NoBar and configure_monitor_bars then run, for some iteration order.
NoBarThenConfigured ==
    LET after == [m \in DOMAIN ret'.monitors |->
                      IF m \in LeavePending THEN NoBar ELSE ret.monitors[m]]
    IN  /\ DOMAIN ret'.monitors = DOMAIN ret.monitors
        /\ ret'.last.configured
        /\ \E order \in Orders(DOMAIN after) :
               ret'.monitors = configure_monitor_bars(arg.mode, after, ret'.meta,
                                                      arg.rules, order)

\* C38: a Pending monitor has no bar, and a tracked monitor leaves Pending
\* only in the notify handler that finds its metadata complete or in a tick
\* at an instant strictly later than first_seen + MONITOR_METADATA_TIMEOUT;
\* in both cases it becomes NoBar and the bars are then configured again.
C38_PendingUntilReadyOrTimedOut ==
    [][\A m \in LeavePending :
           /\ arg.fn = "monitors"
           /\ \/ /\ ret'.last.ev = "notify"
                 /\ ret'.last.mons = {m}
                 /\ is_all_monitor_metadata_present(m, ret'.meta)
              \/ /\ ret'.last.ev = "tick"
                 /\ ret'.last.now > ret.monitors[m].first_seen + MONITOR_METADATA_TIMEOUT
           /\ ret'.monitors[m].kind \in {"NoBar", "Bar"}
           /\ NoBarThenConfigured]_vars

\* A monitor without metadata was Pending through the ticks up to
\* first_seen + MONITOR_METADATA_TIMEOUT and the tick after took it out of
\* Pending and configured the bars.
C38_Witness ==
    /\ arg.fn = "monitors"
    /\ ret.last.ev = "tick"
    /\ ret.last.configured
    /\ ret.last.now = MONITOR_METADATA_TIMEOUT + 1
    /\ \E m \in DOMAIN ret.monitors :
           m \notin ret.meta /\ ret.monitors[m].kind = "Bar"

\* The tracked monitors that match a rule whose bar is "none".
ExcludedByRule ==
    {m \in DOMAIN ret.monitors :
         \E r \in DOMAIN arg.rules :
             /\ arg.rules[r].bar = NO_BAR_NAME
             /\ is_rule_match(arg.rules[r], m, ret.meta)}

\* C39: in primary mode, after configure_monitors_primary at most one tracked
\* monitor is in state Bar, and exactly one is when some tracked monitor is
\* neither Pending nor excluded by a "none" rule.
C39_OnePrimaryBar ==
    Configured("Primary") =>
        /\ Cardinality(InState("Bar")) <= 1
        /\ DOMAIN ret.monitors \ (InState("Pending") \cup ExcludedByRule) # {}
               => Cardinality(InState("Bar")) = 1

\* ------------------------------------------------ config.rs: the bar configs
\* DEFAULT_WIDTH.
DEFAULT_WIDTH == 100

\* Option<T>: None and Some(v).
Absent == <<>>

Some(v) == <<v>>

\* A WidgetConfig, by its type tag and label.
WidgetConfig(type, label) == [type |-> type, label |-> label]

\* default_widgets(): a Cpu widget "CPU" and a Mem widget "Memory".
default_widgets == <<WidgetConfig("cpu", "CPU"), WidgetConfig("mem", "Memory")>>

\* TomlBarConfig and BarConfig.
TomlBarConfig(width, widgets) == [width |-> width, widgets |-> widgets]

BarConfig(width, widgets) == [width |-> width, widgets |-> widgets]

\* TomlBarConfig::to_config(default_width): width.unwrap_or(default_width).
TomlBarConfig_to_config(bc, default_width) ==
    BarConfig(IF bc.width = Absent THEN default_width ELSE bc.width[1], bc.widgets)

\* A TomlMonitorRule, its three regexes taken as one, and the bar it names.
TomlMonitorRule(pattern, bar) == [pattern |-> pattern, bar |-> bar]

\* The text that is no regex.
BadRegex == "("

\* parse_regex in convert_monitor_rules: ".*" for None, and Regex::new fails
\* on text that is no regex.
parse_regex(s) ==
    IF s = Absent THEN [ok |-> TRUE, matches |-> AllMetadata]
    ELSE IF s[1] = BadRegex THEN [ok |-> FALSE, matches |-> {}]
    ELSE [ok |-> TRUE, matches |-> {s[1]}]

\* The loop of TomlConfig::convert_monitor_rules from the r-th rule on: a bar
\* name other than "none" and "primary" has to be a key of bars.
RECURSIVE convert_monitor_rules(_, _, _, _)
convert_monitor_rules(toml_rules, r, bars, result) ==
    IF r > Len(toml_rules) THEN [ok |-> TRUE, err |-> "", rules |-> result]
    ELSE LET rule == toml_rules[r]
             re == parse_regex(rule.pattern)
         IN  IF /\ rule.bar # Absent
                /\ rule.bar[1] \notin {NO_BAR_NAME, PRIMARY_BAR_NAME}
                /\ rule.bar[1] \notin DOMAIN bars
             THEN [ok |-> FALSE, err |-> "monitor rule contains unknown bar name",
                   rules |-> <<>>]
             ELSE IF ~re.ok
             THEN [ok |-> FALSE, err |-> "regex parse error", rules |-> <<>>]
             ELSE convert_monitor_rules(
                      toml_rules, r + 1, bars,
                      Append(result,
                             MonitorRule(re.matches,
                                         IF rule.bar = Absent THEN NoBarName
                                         ELSE rule.bar[1])))

\* Result<Config>.
ConfigErr(err) ==
    [ok |-> FALSE, err |-> err,
     config |-> [mode |-> "", monitor_rules |-> <<>>, bars |-> <<>>]]

ConfigOk(config) == [ok |-> TRUE, err |-> "", config |-> config]

\* to_config that adds no primary bar when the file has neither top-level
\* widgets nor a primary bar.
TomlConfig_to_config_as_given(t) ==
    LET bars == [n \in DOMAIN t.bars |-> TomlBarConfig_to_config(t.bars[n], t.width)]
        rules == convert_monitor_rules(t.monitor_rules, 1, bars, <<>>)
    IN  IF ~rules.ok THEN ConfigErr(rules.err)
        ELSE ConfigOk([mode |-> t.mode, monitor_rules |-> rules.rules, bars |-> bars])

\* TomlConfig::to_config(): the primary bar takes the top-level widgets (an
\* error when it has widgets of its own too), or is inserted with the top-level
\* widgets, or with default_widgets(); the bars are converted; a bar named
\* "none" is an error; the monitor rules are converted.
TomlConfig_to_config(t) ==
    IF /\ PRIMARY_BAR_NAME \in DOMAIN t.bars
       /\ t.widgets # <<>>
       /\ t.bars[PRIMARY_BAR_NAME].widgets # <<>>
    THEN ConfigErr("primary bar widgets specified both as [[widget]] and [[bar.primary.widget]]")
    ELSE LET toml_bars ==
                 IF PRIMARY_BAR_NAME \in DOMAIN t.bars
                 THEN IF t.widgets # <<>>
                      THEN [t.bars EXCEPT ![PRIMARY_BAR_NAME].widgets = t.widgets]
                      ELSE t.bars
                 ELSE IF t.widgets # <<>>
                 THEN map_insert(t.bars, PRIMARY_BAR_NAME, TomlBarConfig(Absent, t.widgets))
                 ELSE map_insert(t.bars, PRIMARY_BAR_NAME,
                                 TomlBarConfig(Absent, default_widgets))
             bars == [n \in DOMAIN toml_bars |->
                          TomlBarConfig_to_config(toml_bars[n], t.width)]
             rules == convert_monitor_rules(t.monitor_rules, 1, bars, <<>>)
         IN  IF NO_BAR_NAME \in DOMAIN bars
             THEN ConfigErr("invalid bar name none: this name is reserved")
             ELSE IF ~rules.ok THEN ConfigErr(rules.err)
             ELSE ConfigOk([mode |-> t.mode, monitor_rules |-> rules.rules,
                            bars |-> bars])

\* Config::primary_bar(): bars.get(PRIMARY_BAR_NAME).unwrap(), which panics
\* on a map without the key.
primary_bar(config) ==
    IF PRIMARY_BAR_NAME \in DOMAIN config.bars
    THEN [panic |-> FALSE, bar |-> config.bars[PRIMARY_BAR_NAME]]
    ELSE [panic |-> TRUE, bar |-> BarConfig(0, <<>>)]

\* The bar names, [[widget]] lists, widths and monitor rules of the files.
BarNames == {PRIMARY_BAR_NAME, NO_BAR_NAME, "side"}

WidgetLists == {<<>>, <<WidgetConfig("net", "Net")>>}

TomlBars ==
    UNION {[S -> {TomlBarConfig(Absent, w) : w \in WidgetLists}
                     \cup {TomlBarConfig(Some(50), <<WidgetConfig("disk_io", "Disk")>>)}]
           : S \in SUBSET BarNames}

TomlRules ==
    {<<>>,
     <<TomlMonitorRule(Absent, Absent)>>,
     <<TomlMonitorRule(Absent, Some(PRIMARY_BAR_NAME))>>,
     <<TomlMonitorRule(Some("m1"), Some(NO_BAR_NAME))>>,
     <<TomlMonitorRule(Some("m1"), Some("side"))>>,
     <<TomlMonitorRule(Some(BadRegex), Absent)>>}

TomlConfigs ==
    [mode : {"Mirror"}, width : {DEFAULT_WIDTH}, monitor_rules : TomlRules,
     bars : TomlBars, widgets : WidgetLists]

\* A TomlConfig was deserialized from the file.
InitConfig ==
    /\ InitStats
    /\ arg \in [fn : {"to_config"}, toml : TomlConfigs]
    /\ ret = [fn |-> "to_config", step |-> "toml", out |-> ConfigErr(""),
              bar |-> primary_bar(ConfigOk([bars |-> <<>>]).config)]

\* Config::load: to_config on the TomlConfig.
LoadConfig ==
    /\ ret.fn = "to_config"
    /\ ret.step = "toml"
    /\ ret' = [ret EXCEPT !.step = "loaded", !.out = TomlConfig_to_config(arg.toml)]
    /\ UNCHANGED <<clock, regVars, deltaVars, arg>>

\* Waymon uses the Config that was returned: config.primary_bar().
UsePrimaryBar ==
    /\ ret.fn = "to_config"
    /\ ret.step = "loaded"
    /\ ret.out.ok
    /\ ret' = [ret EXCEPT !.step = "used", !.bar = primary_bar(ret.out.config)]
    /\ UNCHANGED <<clock, regVars, deltaVars, arg>>

NextConfig == LoadConfig \/ UsePrimaryBar

SpecConfig == InitConfig /\ [][NextConfig]_vars

\* C33: every Config that to_config returns has a bar named "primary" (with
\* the Cpu "CPU" and Mem "Memory" widgets when the file has neither top-level
\* widgets nor a primary bar), so primary_bar() does not panic on it; widgets
\* both at the top level and in the primary bar give an error.
C33_PrimaryBarAlwaysThere ==
    (arg.fn = "to_config" /\ ret.step # "toml") =>
        LET t == arg.toml
            out == ret.out
            both == /\ t.widgets # <<>>
                    /\ PRIMARY_BAR_NAME \in DOMAIN t.bars
                    /\ t.bars[PRIMARY_BAR_NAME].widgets # <<>>
            neither == t.widgets = <<>> /\ PRIMARY_BAR_NAME \notin DOMAIN t.bars
        IN  /\ out.ok => PRIMARY_BAR_NAME \in DOMAIN out.config.bars
            /\ (out.ok /\ neither) =>
                   out.config.bars[PRIMARY_BAR_NAME].widgets =
                       <<[type |-> "cpu", label |-> "CPU"],
                         [type |-> "mem", label |-> "Memory"]>>
            /\ both => ~out.ok
            /\ ret.step = "used" =>
                   /\ ~ret.bar.panic
                   /\ ret.bar.bar = out.config.bars[PRIMARY_BAR_NAME]

\* A file with a [bar.side] section, no primary bar and no top-level widgets
\* was loaded, and primary_bar() gave the bar with the default widgets.
C33_Witness ==
    /\ arg.fn = "to_config"
    /\ ret.step = "used"
    /\ DOMAIN arg.toml.bars = {"side"}
    /\ arg.toml.widgets = <<>>
    /\ ~ret.bar.panic
    /\ Len(ret.bar.bar.widgets) = 2
    /\ ret.bar.bar.width = DEFAULT_WIDTH

\* ------------------------------------ widgets/timeseries.rs: the chart data
\* NUM_SERIES of the chart of integers, StackedTimeseriesChart<u64, 2>.
NUM_SERIES == 2

\* The largest ts_size followed, and the number of add_values calls followed.
MaxSize == 3

MaxAdds == 5

\* T::default().
T_default == 0

\* entry.into_iter().sum(), over the series from the i-th on.  The samples
\* followed are far from the width of T, so no sum overflows.
RECURSIVE sum_from(_, _)
sum_from(entry, i) ==
    IF i > Len(entry) THEN T_default ELSE entry[i] + sum_from(entry, i + 1)

sum(entry) == sum_from(entry, 1)

\* StackedTimeseriesChart::new(ts_size): ts_size entries of defaults; the
\* entry of index i is data[i + 1] here.
StackedTimeseriesChart_new(ts_size) ==
    [data |-> [i \in 1..ts_size |-> [n \in 1..NUM_SERIES |-> T_default]],
     next_index |-> 0,
     max_value |-> T_default]

\* StackedTimeseriesChart::max_value().
max_value(self) == self.max_value

\* The loop of compute_max over the entries from the i-th on.
RECURSIVE compute_max_from(_, _, _)
compute_max_from(data, i, max) ==
    IF i > Len(data) THEN max
    ELSE LET total == sum(data[i])
         IN  compute_max_from(data, i + 1, IF total > max THEN total ELSE max)

\* StackedTimeseriesChart::compute_max().
compute_max(self) == compute_max_from(self.data, 1, T_default)

\* add_values that keeps max_value when the maximum expires.
add_values_stale_max(self, v) ==
    LET x == [n \in DOMAIN v |-> IF v[n] >= T_default THEN v[n] ELSE T_default]
        total == sum(x)
        data == [self.data EXCEPT ![self.next_index + 1] = x]
        next == self.next_index + 1
    IN  [data |-> data,
         next_index |-> IF next >= Len(data) THEN 0 ELSE next,
         max_value |-> IF total >= self.max_value THEN total ELSE self.max_value]

\* add_values that writes every sample to the same slot.
add_values_in_place(self, v) ==
    LET x == [n \in DOMAIN v |-> IF v[n] >= T_default THEN v[n] ELSE T_default]
        data == [self.data EXCEPT ![self.next_index + 1] = x]
    IN  [data |-> data,
         next_index |-> self.next_index,
         max_value |-> compute_max([data |-> data])]

\* StackedTimeseriesChart::add_values(v): negative values become the
\* default; a total that is at least max_value becomes max_value, otherwise
\* max_value is computed again when the expired entry held it; the entry at
\* next_index is overwritten and next_index advances, back to 0 at the end.
add_values(self, v) ==
    LET x == [n \in DOMAIN v |-> IF v[n] >= T_default THEN v[n] ELSE T_default]
        total == sum(x)
        expired_total == sum(self.data[self.next_index + 1])
        data == [self.data EXCEPT ![self.next_index + 1] = x]
        next == self.next_index + 1
    IN  [data |-> data,
         next_index |-> IF next >= Len(data) THEN 0 ELSE next,
         max_value |->
             IF total >= self.max_value THEN total
             ELSE IF expired_total >= self.max_value
             THEN compute_max([data |-> data])
             ELSE self.max_value]

\* The samples given to add_values: totals 0, 1, 2 (twice) and 4.
SampleVectors == {<<0, 0>>, <<1, 0>>, <<1, 1>>, <<0, 2>>, <<2, 2>>}

\* A widget builds its chart with history_length slots.
InitChart ==
    /\ InitStats
    /\ arg \in [fn : {"chart"}, ts_size : 1..MaxSize]
    /\ ret = [fn |-> "chart", chart |-> StackedTimeseriesChart_new(arg.ts_size),
              calls |-> <<>>]

\* The widget's update() gives the chart the next sample.
AddValues ==
    /\ ret.fn = "chart"
    /\ Len(ret.calls) < MaxAdds
    /\ \E v \in SampleVectors :
           ret' = [ret EXCEPT !.chart = add_values(ret.chart, v),
                              !.calls = Append(ret.calls, v)]
    /\ UNCHANGED <<clock, regVars, deltaVars, arg>>

NextChart == AddValues

SpecChart == InitChart /\ [][NextChart]_vars

\* The total of the series values of the slot of index i.
SlotTotal(i) == ret.chart.data[i + 1][1] + ret.chart.data[i + 1][2]

\* The slots of the buffer, by index.
Slots == 0..(Len(ret.chart.data) - 1)

\* C36: after any sequence of add_values calls, max_value() is the largest
\* total of a slot of the buffer (0 for a buffer of zeros), also after the
\* slot that held the maximum has been overwritten.
C36_MaxOverSlots ==
    arg.fn = "chart" =>
        /\ \A i \in Slots : SlotTotal(i) <= max_value(ret.chart)
        /\ \E i \in Slots : SlotTotal(i) = max_value(ret.chart)

\* The sample with the largest total so far has been overwritten by a
\* smaller one, and max_value() is the total of a later, smaller sample.
C36_Witness ==
    /\ arg.fn = "chart"
    /\ arg.ts_size = 2
    /\ Len(ret.calls) = 4
    /\ ret.calls[2] = <<2, 2>>
    /\ ret.calls[3] = <<1, 0>>
    /\ ret.calls[4] = <<0, 0>>
    /\ max_value(ret.chart) = 1

\* The k-th sample given to add_values, as it is stored.
Stored(k) == [n \in 1..NUM_SERIES |-> IF ret.calls[k][n] >= 0 THEN ret.calls[k][n] ELSE 0]

\* C37: for ts_size >= 1 the buffer has ts_size slots for ever, next_index
\* is in [0, ts_size) and is the number of calls modulo ts_size, and after k
\* calls the buffer holds the min(k, ts_size) most recent samples, each call
\* having overwritten the slot of the oldest one, and zeros elsewhere.
C37_RingOfRecentSamples ==
    (arg.fn = "chart" /\ arg.ts_size >= 1) =>
        LET k == Len(ret.calls)
            size == arg.ts_size
        IN  /\ Len(ret.chart.data) = size
            /\ ret.chart.next_index \in 0..(size - 1)
            /\ ret.chart.next_index = k % size
            /\ \A j \in 1..k :
                   j > k - size => ret.chart.data[((j - 1) % size) + 1] = Stored(j)
            /\ \A i \in Slots : i >= k => ret.chart.data[i + 1] = <<0, 0>>

\* Four samples were given to a chart of three slots: the fourth is in slot
\* 0 in place of the first, the second and third are in slots 1 and 2.
C37_Witness ==
    /\ arg.fn = "chart"
    /\ arg.ts_size = 3
    /\ ret.calls = <<<<2, 2>>, <<1, 0>>, <<1, 1>>, <<0, 2>>>>
    /\ ret.chart.data = <<<<0, 2>>, <<1, 0>>, <<1, 1>>>>
    /\ ret.chart.next_index = 1

\* ------------------------------------------ /proc/stat: a line that fails
\* The lines without the k-th.
WithoutLine(lines, k) == SubSeq(lines, 1, k - 1) \o SubSeq(lines, k + 1, Len(lines))

\* C34: a 'cpu' line that fails to parse leaves the ProcStat as if the line
\* had been absent: ProcStat::parse gives what it gives for the text without
\* the line, with no tick field changed and no entry added to the vector.
C34_FailedCpuLineAsAbsent ==
    (ret # NoRet /\ arg.fn = "ProcStat::parse") =>
        LET lines == split(arg.data, "\n")
        IN  \A k \in 1..Len(lines) :
                (/\ starts_with(lines[k], CPU_PREFIX)
                 /\ ~ProcStat_parse_line(ProcStat_zero, lines[k]).ok)
                    => ret.ps = ProcStat_parse_lines(WithoutLine(lines, k), 1,
                                                     ProcStat_zero)

\* ------------------------------- pressure files with lines missing or twice
\* The most lines of a pressure file.
MaxPsiLines == 3

\* Lines of a pressure file: "some " and "full " lines that end with their
\* counter, a line with another prefix, and a "some " line without counter.
PsiLines ==
    {SOME_PREFIX \o TOTAL_PREFIX \o <<"5">>,
     SOME_PREFIX \o AVG \o <<" ">> \o TOTAL_PREFIX \o <<"1", "7">>,
     FULL_PREFIX \o TOTAL_PREFIX \o <<"5">>,
     FULL_PREFIX \o TOTAL_PREFIX \o <<"1", "7">>,
     <<"a", "l", "l", " ">> \o TOTAL_PREFIX \o <<"9">>,
     SOME_PREFIX \o AVG}

\* The empty file, and the files of 1..MaxPsiLines lines.
InitPressureLines ==
    /\ InitStats
    /\ arg \in [fn : {"parse_pressure_data"},
                data : {<<>>} \cup Texts(<<>>, PsiLines, MaxPsiLines)]
    /\ ret = NoRet

\* One call of the pressure parser on such a file.
SpecPressureLines == InitPressureLines /\ [][CallPressureParse]_vars

\* The lines of data that begin with prefix.
LinesWith(data, prefix) ==
    LET lines == split(data, "\n")
    IN  {k \in 1..Len(lines) : starts_with(lines[k], prefix)}

\* Every "some " and "full " line of data ends with its one token total=<int>.
AllEndWithTotal(data) ==
    LET lines == split(data, "\n")
    IN  \A k \in LinesWith(data, SOME_PREFIX) \cup LinesWith(data, FULL_PREFIX) :
            /\ HasOneTotal(lines[k])
            /\ TotalTokens(lines[k]) = {Len(split(lines[k], " "))}

\* C35: a text whose "some " and "full " lines are well-formed parses
\* successfully, also with no "some " line, no "full " line or no line at
\* all; a counter without its line is 0, the last line with a prefix supplies
\* the counter, and the lines with other prefixes change nothing.
C35_MissingLinesAreZero ==
    (ret # NoRet /\ arg.fn = "parse_pressure_data" /\ AllEndWithTotal(arg.data)) =>
        /\ ret.ok
        /\ ret.some = TotalFor(arg.data, SOME_PREFIX)
        /\ ret.full = TotalFor(arg.data, FULL_PREFIX)
        /\ LinesWith(arg.data, SOME_PREFIX) = {} => ret.some = 0
        /\ LinesWith(arg.data, FULL_PREFIX) = {} => ret.full = 0

\* A file with no "some " line, two "full " lines and between them a line
\* with another prefix gave some = 0 and the counter of the second "full ".
C35_Witness ==
    /\ ret # NoRet
    /\ arg.fn = "parse_pressure_data"
    /\ LinesWith(arg.data, SOME_PREFIX) = {}
    /\ LinesWith(arg.data, FULL_PREFIX) = {1, 3}
    /\ split(arg.data, "\n")[1] = FULL_PREFIX \o TOTAL_PREFIX \o <<"5">>
    /\ starts_with(split(arg.data, "\n")[2], <<"a", "l", "l", " ">>)
    /\ ret.ok
    /\ ret.some = 0
    /\ ret.full = 17

====
